---- MODULE Spec2Model ----
(***************************************************************************)
(* Model of the engine scheduler and GPU-context pool of v2-refactored:    *)
(* SmartCanvasPool (src/src/core/SmartCanvasPool.js) together with the     *)
(* part of the engines it drives (QuantumEngine / RealHolographicSystem    *)
(* setActive and createVisualizers).                                       *)
(*                                                                         *)
(* switchToSystem and createSystemContexts are async functions.  Each call *)
(* is a process whose pc names the await (setTimeout) it is suspended at;  *)
(* the code between two awaits runs as one atomic step, as it does on the  *)
(* single JavaScript thread.                                               *)
(***************************************************************************)
EXTENDS Integers, FiniteSets, Sequences, TLC

\* ---------------------------------------------------------------- bounds
MaxEvents == 2     \* external events in a run: calls, losses, driver changes
LongEvents == 4    \* external events in a run of SpecLong
MaxSwitch == 3     \* switchToSystem calls issued in a run
MaxPreload == 1    \* preloadSystem calls issued in a run
MaxCalls == 2      \* calls that may be suspended at an await at one time
MaxLoss == 1       \* driver-initiated context losses in a run
MaxToggle == 1     \* times the driver changes between granting and refusing
MaxLossLayer == 1  \* the driver loses contexts of canvases 1..MaxLossLayer
RMaxInputs == 3    \* script calls and input events of a run of the router
MaxFrames == 2     \* animation frames of a run of the router

\* ------------------------------------------------------ program constants
LayerCount == 5            \* canvases per system in canvasConfigs
CONTEXT_LIMIT == 16        \* if (totalContextCount >= 16)
MAX_LIVE_CONTEXTS == 5     \* getStats().maxContexts
CleanupDelay == 100        \* setTimeout after the emergency cleanup
VisibleDelay == 100        \* setTimeout after making the container visible
PaceDelay == 20            \* setTimeout(resolve, i * 20)
StabilizeDelay == 200      \* setTimeout before createSystemContexts returns
EngineDelay == 100         \* setTimeout at the head of createEngineForSystem
ReinitDelay == 100         \* setTimeout before visualizers are reinitialized

Systems == {"faceted", "quantum", "holographic", "polychora"}
NoSystem == "null"
Layer == 1..LayerCount
Slots == 1..MaxCalls

\* engine classes handed to the pool; createEngineForSystem has no polychora
engineClasses == {"faceted", "quantum", "holographic"}

\* engines whose setActive is in the source and drives its layer container
SelfShowing == {"quantum", "holographic"}

VARIABLES
  activeSystem,  \* this.activeSystem
  ctx,           \* ctx[s][i]: context of the canvas now in the document
  listener,      \* listener[s][i]: webglcontextlost handler attached
  timers,        \* pending recoverLostContext timeouts, <<s, i>>
  layers,        \* style of each system's layer container
  engines,       \* window.engine / quantumEngine / holographicSystem / ...
  gpuOk,         \* the driver currently grants new contexts
  calls,         \* suspended async calls
  event,         \* the step just taken and, for a return, its result
  ops,           \* switchToSystem calls issued so far
  pre,           \* preloadSystem calls issued so far
  losses,        \* context losses so far
  toggles,       \* driver changes so far
  superseded,    \* targets of switches that a later switch overtook
  lastTarget,    \* target of the latest switchToSystem call
  lostActive,    \* system that lost a context while it was active and healthy
  budget         \* external events the run may hold

VARIABLES
  rm,            \* window.reactivityManager (loaded = FALSE before its script)
  mouseModes,    \* state of the router's RotationMode / VelocityMode objects
  clickModes,    \* state of the router's BurstMode / BlastMode / RippleMode
  scrollModes,   \* state of the router's CycleMode / WaveMode / SweepMode
  native,        \* built-in reactivity state of each constructed engine
  raf,           \* callbacks queued with requestAnimationFrame, in order
  params,        \* value and last writer of each parameter field
  tickW,         \* who wrote each field since the last render
  evW,           \* who wrote a parameter in the step just taken
  frame,         \* the input just handled, or what the frame just run did
  stale,         \* router decay loops that were running at the last switch
  rejected,      \* channels whose latest mode selection named no mode
  inputs,        \* input and configuration events so far
  frames         \* frames run so far

VARIABLES
  holo,          \* variant state of window.holographicSystem
  hcalls         \* setVariant / updateParameter calls so far

VARIABLES
  ua,            \* window.universalAudio: isActive, analyser
  connected,     \* names in universalAudio.connectedSystems
  qa,            \* audio fields of window.quantumEngine
  ha,            \* audio fields of window.holographicSystem
  winAudio,      \* window.audioEnabled
  qparams,       \* quantumEngine.parameters, the fields audio writes
  media,         \* getUserMedia() promises not yet settled, per caller
  streams,       \* audio input streams obtained, per caller
  alast,         \* the last frame update() ran on, and the values before it
  acalls         \* audio calls and frames so far

VARIABLES
  snapshot,      \* variation.parameters of a saved variation
  isObject,      \* typeof variation.parameters === 'object', not null
  normalized,    \* what normalizeParameters returned
  ndone          \* normalizeParameters has run

VARIABLES
  gp             \* the gallery preview: where initializeGalleryPreview is

VARIABLES
  ie,            \* window.universalInteractions
  page,          \* the document and the systems the engine is connected to
  input          \* the last input event dispatched

VARIABLES
  cm,            \* this.engines of the canvas manager
  cmEvent        \* what the last call of getOrCreateEngine did

VARIABLES
  af             \* audioFeatures and the energy history of the audio engine

VARIABLES
  tilt           \* the holographic tilt controller, one rotation plane

VARIABLES
  mob            \* window.MobileWebGLFix and the canvases of the page

poolVars == <<activeSystem, ctx, listener, timers, layers, engines, gpuOk,
              calls, event, ops, pre, losses, toggles, superseded, lastTarget,
              lostActive, budget>>

rvars == <<rm, mouseModes, clickModes, scrollModes, native, raf, params,
           tickW, evW, frame, stale, rejected, inputs, frames>>

hvars == <<holo, hcalls>>

avars == <<ua, connected, qa, ha, winAudio, qparams, media, streams, alast,
           acalls>>

nvars == <<snapshot, isObject, normalized, ndone>>

gvars == <<gp>>

ivars == <<ie, page, input>>
mvars == <<cm, cmEvent>>
fvars == <<af>>
tvars == <<tilt>>
wvars == <<mob>>

xvars == <<hvars, avars, nvars, gvars, ivars, mvars, fvars, tvars, wvars>>

vars == <<poolVars, rvars, xvars>>

\* --------------------------------------------------------------- helpers
Hidden == [display |-> "none", visibility |-> "hidden", opacity |-> "0"]
Shown == [display |-> "block", visibility |-> "visible", opacity |-> "1"]
NoEngine == [exists |-> FALSE, isActive |-> FALSE, visualizers |-> 0]
IdleCall == [pc |-> "idle", kind |-> "none", target |-> NoSystem, i |-> 0,
             after |-> {}, cap |-> FALSE, prev |-> NoSystem, prevOk |-> FALSE]

\* canvas.getContext: the canvas keeps the context it has (lost or not);
\* a canvas without one gets a new one when the driver grants it.
getContext(c, ok) ==
  IF c = "none" THEN (IF ok THEN "live" ELSE "none") ELSE c

LiveIn(cx, s) == Cardinality({i \in Layer : cx[s][i] = "live"})

Total(cx) == Cardinality({p \in Systems \X Layer : cx[p[1]][p[2]] = "live"})

\* the synchronous program state the handlers thread through
Cur == [activeSystem |-> activeSystem, ctx |-> ctx, listener |-> listener,
        timers |-> timers, layers |-> layers, engines |-> engines]

\* every getContext call of a counting loop over one system's canvases
touchSystem(st, s, ok) ==
  [st EXCEPT !.ctx[s] = [i \in Layer |-> getContext(st.ctx[s][i], ok)]]

countSystemContexts(st, s, ok) ==
  LET st1 == touchSystem(st, s, ok)
  IN [st |-> st1, count |-> LiveIn(st1.ctx, s)]

touchAll(st, ok) ==
  [st EXCEPT !.ctx = [s \in Systems |->
                        [i \in Layer |-> getContext(st.ctx[s][i], ok)]]]

getTotalWebGLContextCount(st, ok) ==
  LET st1 == touchAll(st, ok)
  IN [st |-> st1, count |-> Total(st1.ctx)]

\* checkGPUMemory counts first; its temporary canvas is not a system surface
checkGPUMemory(st, ok) == getTotalWebGLContextCount(st, ok).st

\* every canvas is replaced by a clone: no context, no listeners; a pending
\* recovery timeout keeps the detached canvas and no longer acts on the page
destroySystemContexts(st, s) ==
  [st EXCEPT !.ctx[s] = [i \in Layer |-> "none"],
             !.listener[s] = [i \in Layer |-> FALSE],
             !.timers = {p \in st.timers : p[1] # s}]

destroyOthers(st, s) ==
  LET others == Systems \ {s}
  IN [st EXCEPT !.ctx = [x \in Systems |->
                           IF x \in others THEN [i \in Layer |-> "none"]
                           ELSE st.ctx[x]],
                !.listener = [x \in Systems |->
                           IF x \in others THEN [i \in Layer |-> FALSE]
                           ELSE st.listener[x]],
                !.timers = {p \in st.timers : p[1] = s}]

hideAllLayers(st) == [st EXCEPT !.layers = [s \in Systems |-> Hidden]]

showSystemLayers(st, s) == [st EXCEPT !.layers[s] = Shown]

\* QuantumEngine.setActive / RealHolographicSystem.setActive: the flag and
\* the display of the engine's own container.  The faceted engine class is
\* not part of the sources; only its flag is modelled.
setActive(st, s, active) ==
  LET st1 == [st EXCEPT !.engines[s].isActive = active]
  IN IF s \in SelfShowing
     THEN [st1 EXCEPT !.layers[s].display =
                          IF active THEN "block" ELSE "none"]
     ELSE st1

validateSystemContexts(st, s, ok) ==
  LET st1 == touchSystem(st, s, ok)
  IN [st |-> st1, success |-> LiveIn(st1.ctx, s) > 0]

\* a surface is composited when its container is displayed and visible
Composited(L, s) ==
  /\ L[s].display = "block"
  /\ L[s].visibility = "visible"
  /\ L[s].opacity = "1"


\* ------------------------------------------------- the code between awaits
\* result of running a call up to its next await: pc = "idle" when the call
\* has returned, and then ok tells whether it returned an engine
R(st, pc, i, ok) == [st |-> st, pc |-> pc, i |-> i, ok |-> ok]

\* switchToSystem from the validation to the next await or the return
afterContexts(st, T, gpu) ==
  LET v == validateSystemContexts(st, T, gpu)
  IN IF ~v.success THEN R(v.st, "idle", 0, FALSE)
     ELSE IF ~v.st.engines[T].exists THEN R(v.st, "engine", 0, FALSE)
     ELSE IF v.st.engines[T].visualizers > 0 THEN R(v.st, "reinit", 0, FALSE)
     ELSE R(setActive(v.st, T, TRUE), "idle", 0, TRUE)

\* createSystemContexts has returned to its caller
cscDone(st, kind, T, gpu) ==
  IF kind = "switch" THEN afterContexts(st, T, gpu)
  ELSE R(st, "idle", 0, TRUE)

\* createSystemContexts from the high-count warning to the next await
cscAfterCleanup(st, T, gpu) ==
  LET st1 == checkGPUMemory(st, gpu)
  IN IF st1.layers[T].display = "none"
     THEN R(showSystemLayers(st1, T), "visible", 0, FALSE)
     ELSE R(st1, "pace", 1, FALSE)

\* createSystemContexts from its first line to the next await
createSystemContexts(st, T, gpu) ==
  LET t == getTotalWebGLContextCount(st, gpu)
  IN IF t.count >= CONTEXT_LIMIT
     THEN R(destroyOthers(t.st, T), "cleanup", 0, FALSE)
     ELSE cscAfterCleanup(t.st, T, gpu)

\* one iteration of the staggered creation loop, after its delay
paceBody(st, T, i, gpu) ==
  LET isVisible == /\ st.layers[T].display # "none"
                   /\ st.layers[T].visibility # "hidden"
      gl == getContext(st.ctx[T][i], gpu)
  IN IF ~isVisible THEN [st |-> st, exit |-> "continue"]
     ELSE IF gl = "none" THEN [st |-> st, exit |-> "continue"]
     ELSE IF gl = "lost" THEN [st |-> st, exit |-> "return"]
     ELSE [st |-> [st EXCEPT !.ctx[T][i] = gl, !.listener[T][i] = TRUE],
           exit |-> "continue"]

\* visualizer.gl of a freshly constructed visualizer: the context its canvas
\* yields; the visualizer is kept when that is not null
createVisualizers(st, T, gpu) ==
  LET st1 == touchSystem(st, T, gpu)
      n == Cardinality({i \in Layer : st1.ctx[T][i] # "none"})
  IN [st1 EXCEPT !.engines[T] =
        [exists |-> TRUE, isActive |-> FALSE, visualizers |-> n]]

\* createEngineForSystem after its delay, then the activation
createEngineForSystem(st, T, gpu) ==
  IF T \in engineClasses
  THEN R(setActive(createVisualizers(st, T, gpu), T, TRUE), "idle", 0, TRUE)
  ELSE R(st, "idle", 0, FALSE)

\* reuse branch after its delay: reinitialize, then activate
reinitAndActivate(st, T) == R(setActive(st, T, TRUE), "idle", 0, TRUE)

\* switchToSystem for a target that is not the active system, to its first
\* await or return
switchPrefix(st, T, gpu) ==
  LET prev == st.activeSystem
      st1 == hideAllLayers(st)
      st2 == IF prev # NoSystem /\ st1.engines[prev].exists
             THEN setActive(st1, prev, FALSE) ELSE st1
      st3 == IF prev # NoSystem THEN destroySystemContexts(st2, prev) ELSE st2
      st4 == showSystemLayers(st3, T)
      st5 == [st4 EXCEPT !.activeSystem = T]
      existing == countSystemContexts(st5, T, gpu)
  IN IF existing.count = 0
     THEN createSystemContexts(existing.st, T, gpu)
     ELSE afterContexts(existing.st, T, gpu)

\* switchToSystem for the active system, without the early return: the
\* general path hides every container and destroys the contexts first
switchSameDestroying(st, T) ==
  LET st1 == showSystemLayers(
               destroySystemContexts(hideAllLayers(st), T), T)
  IN IF st1.engines[T].exists
     THEN R(setActive(st1, T, TRUE), "idle", 0, TRUE)
     ELSE R(st1, "idle", 0, FALSE)

\* switchToSystem for the active system
switchSame(st, T) ==
  LET st1 == showSystemLayers(st, T)
  IN IF st1.engines[T].exists
     THEN R(setActive(st1, T, TRUE), "idle", 0, TRUE)
     ELSE R(st1, "idle", 0, FALSE)

\* delay of the setTimeout a call is suspended at
Dur(pc, i) ==
  CASE pc = "cleanup" -> CleanupDelay
    [] pc = "visible" -> VisibleDelay
    [] pc = "pace" -> (i - 1) * PaceDelay
    [] pc = "stabilize" -> StabilizeDelay
    [] pc = "engine" -> EngineDelay
    [] pc = "reinit" -> ReinitDelay
    [] OTHER -> 0

Commit(st) ==
  /\ activeSystem' = st.activeSystem
  /\ ctx' = st.ctx
  /\ listener' = st.listener
  /\ timers' = st.timers
  /\ layers' = st.layers
  /\ engines' = st.engines

InFlight == {x \in Slots : calls[x].pc # "idle"}

\* slot c runs to r; a timeout set now fires after every pending timeout
\* that was set earlier with a delay no longer than its own
Suspend(c, kind, T, g, r) ==
  calls' = [x \in Slots |->
     IF x = c
     THEN IF r.pc = "idle" THEN IdleCall
          ELSE [pc |-> r.pc, kind |-> kind, target |-> T, i |-> r.i,
                cap |-> g.cap, prev |-> g.prev, prevOk |-> g.prevOk,
                after |-> {y \in InFlight \ {c} :
                   Dur(calls[y].pc, calls[y].i) <= Dur(r.pc, r.i)}]
     ELSE [calls[x] EXCEPT !.after = @ \ {c}]]

FreeSlot(c) ==
  /\ calls[c].pc = "idle"
  /\ \A x \in Slots : x < c => calls[x].pc # "idle"

Events == ops + pre + losses + toggles

\* the instance of s is healthy: it is the active one, it exists and is
\* active, and all of its contexts are live
Healthy(s) ==
  /\ activeSystem = s
  /\ engines[s].exists
  /\ engines[s].isActive
  /\ LiveIn(ctx, s) = LayerCount

\* s is the running engine: healthy and composited
Running(s) == Healthy(s) /\ Composited(layers, s)

NoGhost == [cap |-> FALSE, prev |-> NoSystem, prevOk |-> FALSE]

CapScenario(T) ==
  /\ Total(ctx) = CONTEXT_LIMIT - 1
  /\ LiveIn(ctx, T) = 0
  /\ Cardinality({s \in Systems : LiveIn(ctx, s) = LayerCount}) = 3

\* event records the return of a switchToSystem call; any other step clears it
NoEvent == [op |-> "step", sys |-> NoSystem, ok |-> FALSE, cap |-> FALSE,
            prev |-> NoSystem, prevOk |-> FALSE]

Done(kind, T, r, g) ==
  IF r.pc = "idle" /\ kind = "switch"
  THEN [op |-> "return", sys |-> T, ok |-> r.ok, cap |-> g.cap,
        prev |-> g.prev, prevOk |-> g.prevOk]
  ELSE NoEvent

\* ------------------------------------------- reactivity: numbers and objects
\* Magnitudes are kept in units of 1/Unit and coordinates in hundredths of the
\* canvas; a product with a decimal factor is cut to a whole number of units.
Unit == 10000

Fields == {"rot4dXW", "rot4dYW", "rot4dZW", "hue", "chaos", "speed",
           "gridDensity", "intensity", "saturation", "morphFactor"}

MouseModeNames == {"rotations", "velocity", "distance"}
ClickModeNames == {"burst", "blast", "ripple"}
ScrollModeNames == {"cycle", "wave", "sweep"}

\* a name no mode object has, and a name every object inherits a member for
ForeignNames == {"bogus", "toString"}
Inherited == {"toString"}

Min(a, b) == IF a < b THEN a ELSE b
Max(a, b) == IF a > b THEN a ELSE b

\* Number.toFixed(2), as hundredths
toFixed2(x) == IF x >= 0 THEN (x + 50) \div 100 ELSE 0 - ((50 - x) \div 100)

\* Math.round, as hundredths
round(x) == ((x + (Unit \div 2)) \div Unit) * 100

\* Math.sqrt on whole numbers
sqrt(n) == CHOOSE r \in 0..200 : r * r <= n /\ n < (r + 1) * (r + 1)

\* distance of two positions, in units
distance(p, q) ==
  sqrt((p[1] - q[1]) * (p[1] - q[1]) + (p[2] - q[2]) * (p[2] - q[2])) * 100

Center == <<50, 50>>

\* distanceFromCenter / 0.707, capped at 1
normalizedDistance(p) == Min((distance(p, Center) * 1000) \div 707, Unit)

RECURSIVE Sum(_)
Sum(q) == IF q = <<>> THEN 0 ELSE Head(q) + Sum(Tail(q))

\* push, then shift while more than five are kept
pushVelocity(h, v) ==
  LET h1 == Append(h, v) IN IF Len(h1) > 5 THEN Tail(h1) ELSE h1

\* window.reactivityManager before and after its script has run
NoRouter ==
  [loaded |-> FALSE, enabled |-> TRUE, mouseEnabled |-> TRUE,
   clickEnabled |-> TRUE, scrollEnabled |-> TRUE,
   activeSystemName |-> "faceted", currentMouseMode |-> "rotations",
   currentClickMode |-> "burst", currentScrollMode |-> "cycle"]

NewRouter == [NoRouter EXCEPT !.loaded = TRUE]

NewMouseModes ==
  [velocity |-> [lastPosition |-> Center, velocityHistory |-> <<>>]]

NewClickModes ==
  [burst |-> [isAnimating |-> FALSE, colorFlash |-> 0, chaosBoost |-> 0,
              speedBoost |-> 0],
   blast |-> [isAnimating |-> FALSE, flashIntensity |-> 0, chaosBlast |-> 0,
              speedWave |-> 0, hueShift |-> 0],
   ripple |-> [isAnimating |-> FALSE, morphIntensity |-> 0]]

NewScrollModes ==
  [cycle |-> [scrollDensity |-> 15 * Unit, scrollHue |-> 200 * Unit],
   wave |-> [scrollMorph |-> Unit],
   sweep |-> [sweepParameter |-> 1,
              sweepValues |-> <<200 * Unit, Unit \div 2, (8 * Unit) \div 10,
                                (2 * Unit) \div 10, Unit>>]]

\* an engine that was not constructed, and the fields its constructor sets
NoNative ==
  [useBuiltInReactivity |-> FALSE, listening |-> FALSE, destroyed |-> FALSE,
   lastMousePosition |-> Center, velocityHistory |-> <<>>,
   clickFlashIntensity |-> 0, quantumChaosBlast |-> 0, quantumSpeedWave |-> 0,
   quantumHueShift |-> 0, scrollMorph |-> Unit, clickMorphIntensity |-> 0]

NoParam == [v |-> 0, src |-> "none"]

\* the parameter store after the writes W of one source
Put(P, W, src) ==
  [f \in Fields |-> IF f \in DOMAIN W THEN [v |-> W[f], src |-> src] ELSE P[f]]

\* the writers of the tick after the writes W of one source
Note(T, W, src) ==
  [f \in Fields |-> IF f \in DOMAIN W THEN T[f] \cup {src} ELSE T[f]]

NoWrites == [f \in {} |-> 0]

\* --------------------------------------------------- reactivity: the modes
\* Every handler yields the object's next state and the fields it passes to
\* updateParam, as hundredths.

\* RotationMode.handleMouseMove
RotationMove(p) ==
  [rot4dXW |-> toFixed2((p[1] - 50) * 1256),
   rot4dYW |-> toFixed2(((p[1] - 50) * 8792) \div 10),
   rot4dZW |-> toFixed2((p[2] - 50) * 1256),
   hue |-> round((200 * Unit + (p[1] - 50) * 3000) % (360 * Unit))]

\* VelocityMode.handleMouseMove, and the same arithmetic in
\* QuantumEngine.updateEnhancedQuantumParameters
VelocityMove(last, hist, p) ==
  LET h == pushVelocity(hist, distance(p, last))
      avgVelocity == Sum(h) \div Len(h)
  IN [hist |-> h, last |-> p,
      W |-> [chaos |-> toFixed2(Min(Unit, avgVelocity * 30)),
             speed |-> toFixed2((Unit \div 2) + Min(25000, avgVelocity * 15)),
             gridDensity |-> round(10 * Unit + p[2] * 9000),
             intensity |-> toFixed2(4000 + p[1] * 60),
             hue |-> round((280 * Unit + avgVelocity * 80) % (360 * Unit))]]

\* DistanceMode.handleMouseMove, and the same arithmetic in
\* RealHolographicSystem.updateCenterDistanceParameters
DistanceMove(p) ==
  LET nd == normalizedDistance(p)
  IN [gridDensity |-> round(5 * Unit + 95 * nd),
      intensity |-> toFixed2(2000 + (8 * (Unit - nd)) \div 10),
      saturation |-> toFixed2(4000 + (6 * (Unit - nd)) \div 10),
      hue |-> round((320 * Unit + nd * 40) % (360 * Unit))]

\* one run of BurstMode's animate
BurstAnimate(b) ==
  LET hasEffects == \/ b.colorFlash > 100 \/ b.chaosBoost > 100
                    \/ b.speedBoost > 100
      Wc == IF b.chaosBoost > 100
            THEN "chaos" :> toFixed2(2000 + b.chaosBoost) ELSE NoWrites
      Ws == IF b.speedBoost > 100
            THEN "speed" :> toFixed2(Unit + b.speedBoost) ELSE NoWrites
  IN [m |-> [isAnimating |-> hasEffects,
             colorFlash |-> IF b.colorFlash > 100
                            THEN (b.colorFlash * 94) \div 100 ELSE b.colorFlash,
             chaosBoost |-> IF b.chaosBoost > 100
                            THEN (b.chaosBoost * 92) \div 100 ELSE b.chaosBoost,
             speedBoost |-> IF b.speedBoost > 100
                            THEN (b.speedBoost * 91) \div 100 ELSE b.speedBoost],
      W |-> Wc @@ Ws,
      again |-> hasEffects]

\* one run of BlastMode's animate: flashIntensity has no case in the switch
BlastAnimate(b) ==
  LET hasEffects == \/ b.flashIntensity > 100 \/ b.chaosBlast > 100
                    \/ b.speedWave > 100 \/ b.hueShift > 100
      Wc == IF b.chaosBlast > 100
            THEN "chaos" :> toFixed2(Min(Unit, 3000 + b.chaosBlast))
            ELSE NoWrites
      Ws == IF b.speedWave > 100
            THEN "speed" :> toFixed2(Min(3 * Unit, Unit + b.speedWave))
            ELSE NoWrites
      Wh == IF b.hueShift > 100
            THEN "hue" :> round((280 * Unit + b.hueShift) % (360 * Unit))
            ELSE NoWrites
  IN [m |-> [isAnimating |-> hasEffects,
             flashIntensity |-> b.flashIntensity,
             chaosBlast |-> IF b.chaosBlast > 100
                            THEN (b.chaosBlast * 88) \div 100 ELSE b.chaosBlast,
             speedWave |-> IF b.speedWave > 100
                           THEN (b.speedWave * 89) \div 100 ELSE b.speedWave,
             hueShift |-> IF b.hueShift > 100
                          THEN (b.hueShift * 90) \div 100 ELSE b.hueShift],
      W |-> Wc @@ Ws @@ Wh,
      again |-> hasEffects]

\* one run of RippleMode's animate
RippleAnimate(b) ==
  IF b.morphIntensity > 100
  THEN [m |-> [isAnimating |-> TRUE,
               morphIntensity |-> (b.morphIntensity * 9) \div 10],
        W |-> "morphFactor" :> toFixed2(Unit + b.morphIntensity),
        again |-> TRUE]
  ELSE [m |-> [b EXCEPT !.isAnimating = FALSE],
        W |-> "morphFactor" :> toFixed2(Unit),
        again |-> FALSE]

\* animate of the click mode named n
Animate(n, C) ==
  CASE n = "burst" -> BurstAnimate(C.burst)
    [] n = "blast" -> BlastAnimate(C.blast)
    [] n = "ripple" -> RippleAnimate(C.ripple)

\* handleClick of the click mode named n: the effects it sets
Armed(n, C, p) ==
  CASE n = "burst" ->
         [C.burst EXCEPT !.colorFlash = Unit, !.chaosBoost = (8 * Unit) \div 10,
                         !.speedBoost = (15 * Unit) \div 10]
    [] n = "blast" ->
         [C.blast EXCEPT !.flashIntensity = Unit,
                         !.chaosBlast = (7 * Unit) \div 10,
                         !.speedWave = 2 * Unit, !.hueShift = 60 * Unit]
    [] n = "ripple" ->
         [C.ripple EXCEPT !.morphIntensity =
            1000 + (2 * (Unit - normalizedDistance(p))) \div 10]

\* handleClick: set the effects and, unless already animating, run animate
handleClick(n, C, p) ==
  LET armed == [C EXCEPT ![n] = Armed(n, C, p)]
      a == Animate(n, armed)
  IN IF C[n].isAnimating
     THEN [C |-> armed, W |-> NoWrites, start |-> FALSE]
     ELSE [C |-> [armed EXCEPT ![n] = a.m], W |-> a.W, start |-> a.again]

\* deltaY > 0 ? 1 : -1
direction(deltaY) == IF deltaY > 0 THEN 1 ELSE -1

\* CycleMode.handleWheel
CycleWheel(c, deltaY) ==
  LET d == Max(5 * Unit, Min(100 * Unit,
                c.scrollDensity + direction(deltaY) * ((8 * Unit) \div 10)))
      h == (((c.scrollHue + direction(deltaY) * 3 * Unit) % (360 * Unit))
              + 360 * Unit) % (360 * Unit)
  IN [m |-> [scrollDensity |-> d, scrollHue |-> h],
      W |-> [gridDensity |-> round(d), hue |-> round(h)]]

\* WaveMode.handleWheel
WaveWheel(w, deltaY) ==
  LET m == Max((2 * Unit) \div 10, Min(2 * Unit,
                w.scrollMorph + direction(deltaY) * (Unit \div 50)))
  IN [m |-> [scrollMorph |-> m], W |-> [morphFactor |-> toFixed2(m)]]

SweepParams == <<"hue", "intensity", "saturation", "chaos", "speed">>

SweepRanges ==
  <<<<0, 360 * Unit>>, <<Unit \div 10, Unit>>, <<Unit \div 10, Unit>>,
    <<0, Unit>>, <<Unit \div 10, 3 * Unit>>>>

\* SweepMode.handleWheel; next tells whether Math.random() < 0.1
SweepWheel(s, deltaY, next) ==
  LET k == s.sweepParameter
      min == SweepRanges[k][1]
      max == SweepRanges[k][2]
      step == (max - min) \div 50
      v == Max(min, Min(max, s.sweepValues[k] + direction(deltaY) * step))
  IN [m |-> [sweepParameter |-> IF next THEN (k % 5) + 1 ELSE k,
             sweepValues |-> [s.sweepValues EXCEPT ![k] = v]],
      W |-> SweepParams[k] :> toFixed2(v)]

\* ------------------------------------------------ reactivity: the listeners
RCur == [rm |-> rm, mouseModes |-> mouseModes, clickModes |-> clickModes,
         scrollModes |-> scrollModes, native |-> native, raf |-> raf,
         params |-> params, tickW |-> tickW, evW |-> evW]

\* window.updateParameter called with the fields W by one source
Write(X, W, src) ==
  IF DOMAIN W = {} THEN X
  ELSE [X EXCEPT !.params = Put(X.params, W, src),
                 !.tickW = Note(X.tickW, W, src),
                 !.evW = X.evW \cup {src}]

\* the canvas listeners an engine attached: QuantumEngine's mousemove,
\* RealHolographicSystem's mousemove
nativeMouseMove(X, E, t, p) ==
  IF ~(X.native[t].listening /\ E[t].isActive) THEN X
  ELSE IF t = "quantum"
  THEN LET r == VelocityMove(X.native[t].lastMousePosition,
                             X.native[t].velocityHistory, p)
       IN Write([X EXCEPT !.native[t].lastMousePosition = r.last,
                          !.native[t].velocityHistory = r.hist], r.W, "native")
  ELSE Write(X, DistanceMove(p), "native")

\* triggerQuantumClick / triggerHolographicClickMorph
nativeClick(X, E, t, p) ==
  IF ~(X.native[t].listening /\ E[t].isActive) THEN X
  ELSE IF t = "quantum"
  THEN [X EXCEPT !.native[t].clickFlashIntensity = Unit,
                 !.native[t].quantumChaosBlast = (7 * Unit) \div 10,
                 !.native[t].quantumSpeedWave = 2 * Unit,
                 !.native[t].quantumHueShift = 60 * Unit]
  ELSE [X EXCEPT !.native[t].clickMorphIntensity =
          1000 + (2 * (Unit - normalizedDistance(p))) \div 10]

\* QuantumEngine.updateQuantumScroll; the holographic engine has no wheel
\* listener
nativeWheel(X, E, t, deltaY) ==
  IF ~(X.native[t].listening /\ E[t].isActive) \/ t # "quantum" THEN X
  ELSE LET m == Max((2 * Unit) \div 10, Min(2 * Unit,
                 X.native[t].scrollMorph + direction(deltaY) * (Unit \div 50)))
       IN Write([X EXCEPT !.native[t].scrollMorph = m],
                [morphFactor |-> toFixed2(m)], "native")

\* ReactivityManager.handleGlobalMouseMove, for an event on a canvas
handleGlobalMouseMove(X, p) ==
  IF ~(X.rm.loaded /\ X.rm.enabled /\ X.rm.mouseEnabled) THEN X
  ELSE CASE X.rm.currentMouseMode = "rotations" ->
              Write(X, RotationMove(p), "router")
         [] X.rm.currentMouseMode = "velocity" ->
              LET r == VelocityMove(X.mouseModes.velocity.lastPosition,
                                    X.mouseModes.velocity.velocityHistory, p)
              IN Write([X EXCEPT !.mouseModes.velocity =
                          [lastPosition |-> r.last, velocityHistory |-> r.hist]],
                       r.W, "router")
         [] X.rm.currentMouseMode = "distance" ->
              Write(X, DistanceMove(p), "router")
         [] OTHER -> X

\* ReactivityManager.handleGlobalClick, for an event on a canvas
handleGlobalClick(X, p) ==
  LET n == X.rm.currentClickMode
  IN IF ~(X.rm.loaded /\ X.rm.enabled /\ X.rm.clickEnabled) THEN X
     ELSE IF n \notin ClickModeNames THEN X
     ELSE LET r == handleClick(n, X.clickModes, p)
              X1 == Write([X EXCEPT !.clickModes = r.C], r.W, "router")
          IN IF r.start
             THEN [X1 EXCEPT !.raf = Append(X1.raf, <<"router", n>>)]
             ELSE X1

\* ReactivityManager.handleGlobalWheel, for an event on a canvas
handleGlobalWheel(X, deltaY, next) ==
  LET n == X.rm.currentScrollMode
  IN IF ~(X.rm.loaded /\ X.rm.enabled /\ X.rm.scrollEnabled) THEN X
     ELSE CASE n = "cycle" ->
                 LET r == CycleWheel(X.scrollModes.cycle, deltaY)
                 IN Write([X EXCEPT !.scrollModes.cycle = r.m], r.W, "router")
            [] n = "wave" ->
                 LET r == WaveWheel(X.scrollModes.wave, deltaY)
                 IN Write([X EXCEPT !.scrollModes.wave = r.m], r.W, "router")
            [] n = "sweep" ->
                 LET r == SweepWheel(X.scrollModes.sweep, deltaY, next)
                 IN Write([X EXCEPT !.scrollModes.sweep = r.m], r.W, "router")
            [] OTHER -> X

\* ReactivityManager.autoSelectDefaults
autoSelectDefaults(r, s) ==
  CASE s = "quantum" ->
         [r EXCEPT !.currentMouseMode = "velocity",
                   !.currentClickMode = "blast", !.currentScrollMode = "wave"]
    [] s = "holographic" ->
         [r EXCEPT !.currentMouseMode = "distance",
                   !.currentClickMode = "ripple", !.currentScrollMode = "sweep"]
    [] OTHER ->
         [r EXCEPT !.currentMouseMode = "rotations",
                   !.currentClickMode = "burst", !.currentScrollMode = "cycle"]

\* the frame callback of QuantumEngine.startQuantumEffectLoops
quantumEffects(n) ==
  LET W1 == IF n.clickFlashIntensity > 100
            THEN [saturation |->
                    toFixed2((9 * Unit) \div 10 + n.clickFlashIntensity \div 10),
                  morphFactor |->
                    toFixed2(n.scrollMorph + n.clickFlashIntensity \div 2)]
            ELSE NoWrites
      W2 == IF n.quantumChaosBlast > 100
            THEN "chaos" :> toFixed2(Min(Unit, 3000 + n.quantumChaosBlast))
            ELSE NoWrites
      W3 == IF n.quantumSpeedWave > 100
            THEN "speed" :> toFixed2(Min(3 * Unit, Unit + n.quantumSpeedWave))
            ELSE NoWrites
      W4 == IF n.quantumHueShift > Unit
            THEN "hue" :> round((280 * Unit + n.quantumHueShift) % (360 * Unit))
            ELSE NoWrites
      dec(x, f, thr) == IF x > thr THEN (x * f) \div 100 ELSE x
  IN [m |-> [n EXCEPT
               !.clickFlashIntensity = dec(n.clickFlashIntensity, 91, 100),
               !.quantumChaosBlast = dec(n.quantumChaosBlast, 88, 100),
               !.quantumSpeedWave = dec(n.quantumSpeedWave, 89, 100),
               !.quantumHueShift = dec(n.quantumHueShift, 90, Unit)],
      W |-> W1 @@ W2 @@ W3 @@ W4]

\* the frame callback of RealHolographicSystem.startHolographicClickMorphLoop
morphEffect(n) ==
  IF n.clickMorphIntensity > 100
  THEN [m |-> [n EXCEPT !.clickMorphIntensity =
                          (n.clickMorphIntensity * 9) \div 10],
        W |-> "morphFactor" :> toFixed2(Unit + n.clickMorphIntensity)]
  ELSE IF n.clickMorphIntensity > 0
  THEN [m |-> [n EXCEPT !.clickMorphIntensity = 0],
        W |-> "morphFactor" :> toFixed2(Unit)]
  ELSE [m |-> n, W |-> NoWrites]

\* one run of an engine's effect callback; it is queued again while active
nativeEffects(X, E, e) ==
  LET r == IF e = "quantum" THEN quantumEffects(X.native[e])
           ELSE morphEffect(X.native[e])
      X1 == Write([X EXCEPT !.native[e] = r.m], r.W, "native")
  IN [X |-> X1, wrote |-> DOMAIN r.W # {}, again |-> E[e].isActive]

\* --------------------------------------------------- reactivity: the frame
NoFrame == [input |-> "none", target |-> NoSystem, delta |-> 0, ran |-> FALSE,
            drawn |-> {}, idle |-> {}, overruled |-> {}, loops |-> {}]

\* fields both sources wrote since the last render whose value is not the
\* router's
Overruled(X) ==
  {f \in Fields : {"router", "native"} \subseteq X.tickW[f]
                    /\ X.params[f].src # "router"}

\* a render loop that draws whether or not the engine is active
runCallbackUnguarded(S, cb, E) ==
  CASE cb[1] = "render" ->
         [X |-> [S.X EXCEPT !.raf = Append(S.X.raf, cb),
                            !.tickW = [f \in Fields |-> {}]],
          frame |-> [S.frame EXCEPT
                       !.drawn = S.frame.drawn \cup {cb[2]},
                       !.overruled = S.frame.overruled \cup Overruled(S.X)]]
    [] cb[1] = "native" ->
         LET r == nativeEffects(S.X, E, cb[2])
         IN [X |-> IF r.again
                   THEN [r.X EXCEPT !.raf = Append(r.X.raf, cb)] ELSE r.X,
             frame |-> IF r.wrote /\ ~E[cb[2]].isActive
                       THEN [S.frame EXCEPT !.idle = S.frame.idle \cup {cb[2]}]
                       ELSE S.frame]
    [] cb[1] = "router" ->
         LET a == Animate(cb[2], S.X.clickModes)
             X1 == Write([S.X EXCEPT !.clickModes[cb[2]] = a.m], a.W, "router")
         IN [X |-> IF a.again
                   THEN [X1 EXCEPT !.raf = Append(X1.raf, cb)] ELSE X1,
             frame |-> IF DOMAIN a.W # {}
                       THEN [S.frame EXCEPT !.loops = S.frame.loops \cup {cb[2]}]
                       ELSE S.frame]

\* one queued callback: the render loop of an engine, the effect loop of an
\* engine, or the animate closure of a click mode
runCallback(S, cb, E) ==
  CASE cb[1] = "render" ->
         IF E[cb[2]].isActive
         THEN [X |-> [S.X EXCEPT !.raf = Append(S.X.raf, cb),
                                 !.tickW = [f \in Fields |-> {}]],
               frame |-> [S.frame EXCEPT
                            !.drawn = S.frame.drawn \cup {cb[2]},
                            !.overruled = S.frame.overruled \cup Overruled(S.X)]]
         ELSE [S EXCEPT !.X.raf = Append(S.X.raf, cb)]
    [] cb[1] = "native" ->
         LET r == nativeEffects(S.X, E, cb[2])
         IN [X |-> IF r.again
                   THEN [r.X EXCEPT !.raf = Append(r.X.raf, cb)] ELSE r.X,
             frame |-> IF r.wrote /\ ~E[cb[2]].isActive
                       THEN [S.frame EXCEPT !.idle = S.frame.idle \cup {cb[2]}]
                       ELSE S.frame]
    [] cb[1] = "router" ->
         LET a == Animate(cb[2], S.X.clickModes)
             X1 == Write([S.X EXCEPT !.clickModes[cb[2]] = a.m], a.W, "router")
         IN [X |-> IF a.again
                   THEN [X1 EXCEPT !.raf = Append(X1.raf, cb)] ELSE X1,
             frame |-> IF DOMAIN a.W # {}
                       THEN [S.frame EXCEPT !.loops = S.frame.loops \cup {cb[2]}]
                       ELSE S.frame]

\* the callbacks of one frame, in the order they were queued: each runs on
\* the state T the one before it left
RECURSIVE runFrame(_, _, _)
runFrame(S, q, E) ==
  IF q = <<>> THEN S
  ELSE CHOOSE U \in {runFrame(T, Tail(q), E) :
                       T \in {runCallback(S, Head(q), E)}} : TRUE

RCommit(X) ==
  /\ rm' = X.rm
  /\ mouseModes' = X.mouseModes
  /\ clickModes' = X.clickModes
  /\ scrollModes' = X.scrollModes
  /\ native' = X.native
  /\ raf' = X.raf
  /\ params' = X.params
  /\ tickW' = X.tickW
  /\ evW' = X.evW

\* the state a handler starts from
Fresh == [RCur EXCEPT !.evW = {}]

RStart ==
  /\ rm = NoRouter
  /\ mouseModes = NewMouseModes
  /\ clickModes = NewClickModes
  /\ scrollModes = NewScrollModes
  /\ native = [e \in SelfShowing |-> NoNative]
  /\ raf = <<>>
  /\ params = [f \in Fields |-> NoParam]
  /\ tickW = [f \in Fields |-> {}]
  /\ evW = {}
  /\ frame = NoFrame
  /\ stale = {}
  /\ rejected = {}
  /\ inputs = 0
  /\ frames = 0

\* ------------------------------------------------ holographic variants
\* parameters a caller overrides, and the marker of a field of customParams
\* that was never set
HParams == {"gridDensity", "hue"}
Unset == -1

\* this.totalVariants
totalVariants == 30

\* HolographicVisualizer.generateVariantParams / generateRoleParams: the
\* class is outside the sources, so a generated value is only told apart by
\* the variant, and for role parameters the layer, it was generated for
generateVariantParams(v) == [p \in HParams |-> 1000 + v]
generateRoleParams(v, i) == [variant |-> v, role |-> i]

\* the engine with n visualizers, as its constructor leaves it
NewHolo(n) ==
  [currentVariant |-> 0,
   customParams |-> [p \in HParams |-> Unset],
   visualizers |-> [i \in 1..n |->
                     [variant |-> 0, variantParams |-> generateVariantParams(0),
                      roleParams |-> generateRoleParams(0, i)]],
   last |-> "new"]

\* RealHolographicSystem.updateParameter; shown tells whether the
\* visualizers' updateParameters stores the value in variantParams
updateParameter(h, param, value, shown) ==
  [h EXCEPT !.customParams[param] = value,
            !.visualizers = [i \in DOMAIN h.visualizers |->
               IF shown
               THEN [h.visualizers[i] EXCEPT !.variantParams[param] = value]
               ELSE h.visualizers[i]],
            !.last = "param"]

\* a variant change that forgets the overrides
updateVariantFresh(h, newVariant) ==
  LET v == IF newVariant < 0 THEN totalVariants - 1
           ELSE IF newVariant >= totalVariants THEN 0 ELSE newVariant
  IN [h EXCEPT !.currentVariant = v,
               !.visualizers = [i \in DOMAIN h.visualizers |->
                  [variant |-> v,
                   variantParams |-> generateVariantParams(v),
                   roleParams |-> generateRoleParams(v, i)]],
               !.last = "variant"]

\* RealHolographicSystem.updateVariant
updateVariant(h, newVariant) ==
  LET v == IF newVariant < 0 THEN totalVariants - 1
           ELSE IF newVariant >= totalVariants THEN 0 ELSE newVariant
  IN [h EXCEPT !.currentVariant = v,
               !.visualizers = [i \in DOMAIN h.visualizers |->
                  [variant |-> v,
                   variantParams |->
                     [p \in HParams |->
                        IF h.customParams[p] # Unset THEN h.customParams[p]
                        ELSE generateVariantParams(v)[p]],
                   roleParams |-> generateRoleParams(v, i)]],
               !.last = "variant"]

\* ------------------------------------------------------------------ audio
\* Audio levels are hundredths (0..100). Of the parameters the audio channel
\* writes, intensity, saturation and morphFactor are ten-thousandths (Unit),
\* hue is hundredths of a degree (280 is 28000), geometry is an integer.
Owners == {"universal", "quantum", "holographic"}
AudioSystems == {"quantum", "holographic"}
AParams == {"hue", "intensity", "saturation", "morphFactor", "geometry"}

\* one analysed frame: this.audioFeatures after processAudioFeatures()
Silence == [bass |-> 0, mid |-> 0, high |-> 0, energy |-> 0,
            transients |-> 0, rhythm |-> 0]
TestFrame == [bass |-> 90, mid |-> 10, high |-> 10, energy |-> 80,
              transients |-> 0, rhythm |-> 0]
Rhythmic == [bass |-> 10, mid |-> 50, high |-> 90, energy |-> 50,
             transients |-> 100, rhythm |-> 80]
AudioFrames == {Silence, TestFrame, Rhythmic}

\* Math.sin(x * Math.PI) for the products audioValue * intensity that occur,
\* x and the result in ten-thousandths
sinPi(x) ==
  CASE x = 0 -> 0
    [] x = 1000 -> 3090
    [] x = 5000 -> 10000
    [] x = 9000 -> 3090

\* systemMappings.quantum: range in the parameter's unit, intensity in
\* hundredths
quantumMapping ==
  [bass |-> [parameter |-> "intensity", min |-> 3000, max |-> 10000,
             mode |-> "pulse", intensity |-> 120, flag |-> "latticeBoost"],
   mid |-> [parameter |-> "hue", min |-> 20000, max |-> 32000,
            mode |-> "wave", intensity |-> 100, flag |-> "particleSystem"],
   high |-> [parameter |-> "saturation", min |-> 6000, max |-> 10000,
             mode |-> "shimmer", intensity |-> 80, flag |-> "rgbGlitch"],
   rhythm |-> [parameter |-> "geometry", min |-> 0, max |-> 7,
               mode |-> "cycle", intensity |-> 100, flag |-> "latticeCycle"]]

MappedFeatures == <<"bass", "mid", "high", "rhythm">>   \* Object.entries order

AMin(a, b) == IF a < b THEN a ELSE b
AMax(a, b) == IF a > b THEN a ELSE b

\* mapAudioToParameter(audioValue, config), the modes the quantum mapping uses
mapAudioToParameter(audioValue, config) ==
  LET x == audioValue * config.intensity
      span == config.max - config.min
      mappedValue ==
        CASE config.mode = "pulse" -> config.min + (span * ((x * x) \div Unit)) \div Unit
          [] config.mode = "wave" ->
               config.min + (span * (Unit + sinPi(x))) \div (2 * Unit)
          [] OTHER -> config.min + (span * x) \div Unit
  IN AMax(config.min, AMin(config.max, mappedValue))

\* applyQuantumEffects: the writes one mapping entry makes to p, the engine's
\* parameters; now is Math.floor((Date.now() / 2000) % 8)
applyQuantumEffects(p, features, config, mappedValue, now) ==
  IF config.flag = "latticeBoost" /\ features.bass > 40
    THEN [p EXCEPT !.intensity = AMin(Unit, mappedValue + 3000)]
  ELSE IF config.flag \in {"particleSystem", "rgbGlitch"}
    THEN [p EXCEPT ![config.parameter] = mappedValue]
  ELSE IF config.flag = "latticeCycle" /\ features.rhythm > 50
    THEN [p EXCEPT !.geometry = now]
  ELSE [p EXCEPT ![config.parameter] = mappedValue]

\* the forEach of updateSystemAudio over the quantum mapping, from entry i
RECURSIVE quantumEntries(_, _, _, _)
quantumEntries(p, features, i, now) ==
  IF i > Len(MappedFeatures) THEN p
  ELSE LET config == quantumMapping[MappedFeatures[i]]
           mappedValue == mapAudioToParameter(features[MappedFeatures[i]], config)
       IN quantumEntries(applyQuantumEffects(p, features, config, mappedValue, now),
                         features, i + 1, now)

\* updateSystemAudio(systemName, system): the holographic mapping is an
\* enhancement and RealHolographicSystem has no updateAudioEnhancement
updateSystemAudio(systemName, p, features, now) ==
  IF systemName = "quantum" THEN quantumEntries(p, features, 1, now) ELSE p

\* what QuantumEngine.updateAudioParameters(bass, mid, high) would write; the
\* second updateAudioReactivity of the class replaces its only caller
updateAudioParameters(p, bass, mid, high) ==
  LET newHue == (28000 + mid * 120) % 36000
      newMorphFactor == Unit + high * 100
      q == [p EXCEPT !.hue = ((newHue + 50) \div 100) * 100,
                     !.morphFactor = newMorphFactor]
  IN IF bass > 30 THEN [q EXCEPT !.intensity = 7000 + bass * 30] ELSE q

\* QuantumEngine.updateAudioReactivity as the class defines it last: the frame
\* goes to the visualizers, the parameters stay
updateAudioReactivity(p, features) == p

\* new QuantumEngine(): parameters set by the constructor
QuantumDefaults ==
  [hue |-> 28000, intensity |-> 7000, saturation |-> 9000,
   morphFactor |-> 10000, geometry |-> 0]

NewAudioEngine == [isActive |-> FALSE, analyser |-> FALSE]
NewEngineAudio == [isActive |-> FALSE, audioEnabled |-> FALSE,
                   analyser |-> FALSE, audioContext |-> FALSE]
NoAudioFrame == [frame |-> Silence, delivered |-> FALSE, ticked |-> FALSE,
                 before |-> QuantumDefaults]

AStart ==
  /\ ua = NewAudioEngine
  /\ connected = {}
  /\ qa = NewEngineAudio
  /\ ha = NewEngineAudio
  /\ winAudio = "undefined"
  /\ qparams = QuantumDefaults
  /\ media = [o \in Owners |-> 0]
  /\ streams = [o \in Owners |-> 0]
  /\ alast = NoAudioFrame
  /\ acalls = 0

\* --------------------------------------------------- snapshot parameters
\* A JavaScript value of a saved parameter: numbers are tenths (3.8 is 38)
Undef == [t |-> "undefined", n |-> 0]
Null == [t |-> "null", n |-> 0]
Empty == [t |-> "string", n |-> -1]      \* ''
Text == [t |-> "string", n |-> -2]       \* a string parseFloat cannot read
NaN == [t |-> "NaN", n |-> 0]
Num(n) == [t |-> "number", n |-> n]
NumStr(n) == [t |-> "numeric string", n |-> n]

\* the names normalizeParameters reads for each field it writes, in the
\* order of its || chain, and the fallback it passes to safeNumber
Chain ==
  [geometry |-> <<"geometry", "geometryType", "geom">>,
   geometryType |-> <<"geometry", "geometryType", "geom">>,
   gridDensity |-> <<"gridDensity", "density", "grid">>,
   density |-> <<"gridDensity", "density", "grid">>,
   speed |-> <<"speed", "animSpeed">>,
   chaos |-> <<"chaos", "randomness">>,
   morphFactor |-> <<"morphFactor", "morph">>,
   morph |-> <<"morphFactor", "morph">>,
   hue |-> <<"hue", "color", "colorHue">>,
   saturation |-> <<"saturation", "sat">>,
   intensity |-> <<"intensity", "brightness">>,
   rot4dXW |-> <<"rot4dXW", "rotXW">>,
   rot4dYW |-> <<"rot4dYW", "rotYW">>,
   rot4dZW |-> <<"rot4dZW", "rotZW">>,
   dimension |-> <<"dimension", "dim">>]

\* getDefaultParameters()
DefaultParameters ==
  [geometry |-> 0, geometryType |-> 0, gridDensity |-> 100, density |-> 100,
   speed |-> 10, chaos |-> 0, morphFactor |-> 0, morph |-> 0, hue |-> 2000,
   saturation |-> 8, intensity |-> 5, rot4dXW |-> 0, rot4dYW |-> 0,
   rot4dZW |-> 0, dimension |-> 38]

NormFields == DOMAIN Chain
Canonical == {f \in NormFields : Chain[f][1] = f}
Keys == UNION {{Chain[f][i] : i \in 1..Len(Chain[f])} : f \in NormFields}

\* JavaScript truthiness
truthy(v) ==
  \/ v.t = "number" /\ v.n # 0
  \/ v.t = "numeric string"
  \/ v = Text

\* a || b || c over the names of a chain, from the i-th
RECURSIVE orChain(_, _, _)
orChain(saved, names, i) ==
  IF i = Len(names) \/ truthy(saved[names[i]]) THEN saved[names[i]]
  ELSE orChain(saved, names, i + 1)

\* parseFloat gives a number
isNumber(v) == v.t \in {"number", "numeric string"}

\* safeNumber(value, fallback)
safeNumber(value, fallback) ==
  IF value \in {Null, Undef, Empty} THEN fallback
  ELSE IF isNumber(value) THEN value.n ELSE fallback

\* normalizeParameters(params); object is typeof params === 'object' && params
normalizeParameters(saved, object) ==
  IF ~object THEN DefaultParameters
  ELSE [f \in NormFields |->
          safeNumber(orChain(saved, Chain[f], 1), DefaultParameters[f])]

EmptyParams == [k \in Keys |-> Undef]

NStart ==
  /\ snapshot = EmptyParams
  /\ isObject = TRUE
  /\ normalized = DefaultParameters
  /\ ndone = FALSE

\* ---------------------------------------------------------- gallery preview
\* window.isGalleryPreview is false: initializeGalleryPreview returns at once
NoPreview == [pc |-> "idle", system |-> NoSystem, rejects |-> FALSE,
              failed |-> FALSE, applied |-> NoSystem]

GStart == gp = NoPreview

\* ------------------------------------------------------ interaction engine
\* the page: a top bar with a button, a control panel with a range slider
\* and a caption, and the canvas container with a visualization canvas
Elements == {"body", "topBar", "systemBtn", "panel", "slider", "caption",
             "container", "canvas"}
NoElement == "none"

parentElement ==
  [body |-> NoElement, topBar |-> "body", systemBtn |-> "topBar",
   panel |-> "body", slider |-> "panel", caption |-> "panel",
   container |-> "body", canvas |-> "container"]

tagName ==
  [body |-> "BODY", topBar |-> "DIV", systemBtn |-> "BUTTON", panel |-> "DIV",
   slider |-> "INPUT", caption |-> "SPAN", container |-> "DIV",
   canvas |-> "CANVAS"]

classList ==
  [body |-> {}, topBar |-> {"top-bar"}, systemBtn |-> {"system-btn"},
   panel |-> {"control-panel"}, slider |-> {}, caption |-> {},
   container |-> {"canvas-container"}, canvas |-> {"visualization-canvas"}]

\* element.type
inputType == [e \in Elements |-> IF e = "slider" THEN "range" ELSE "none"]

\* the element and its ancestors: the path an event bubbles along
RECURSIVE Path(_)
Path(element) ==
  IF element = NoElement THEN {}
  ELSE {element} \cup Path(parentElement[element])

\* document.querySelectorAll('.canvas-container, canvas'), in document order
canvasAreas == <<"container", "canvas">>

UIClasses == {"system-btn", "action-btn", "panel-btn", "geom-btn",
              "control-panel", "top-bar", "mobile-collapse-btn"}

\* UniversalInteractionEngine.isUIElement
RECURSIVE isUIElement(_)
isUIElement(element) ==
  IF element = NoElement \/ element = "body" THEN FALSE
  ELSE IF \/ classList[element] \cap UIClasses # {}
          \/ tagName[element] \in {"BUTTON", "INPUT", "SELECT"}
          \/ inputType[element] = "range"
       THEN TRUE
       ELSE isUIElement(parentElement[element])

\* ReactivityManager.isCanvasEvent
isCanvasEvent(target) ==
  tagName[target] = "CANVAS" /\ "visualization-canvas" \in classList[target]

\* the parameters the interaction engine writes: rotations in thousandths of
\* a radian, hue in degrees, saturation in ten-thousandths, the rest in
\* hundredths, geometry an index
RotationParams == <<"rot4dXW", "rot4dYW", "rot4dZW", "rot4dXY", "rot4dXZ",
                    "rot4dYZ">>
IParams == {RotationParams[i] : i \in 1..6} \cup
           {"chaos", "geometry", "hue", "saturation", "intensity",
            "mouseIntensity", "gridDensity"}
MilliPi == 3142

\* the constructor; the mapping table of createInteractionMappings is read
\* with the key of line 187 (4dPhysics) as a property name. The fields no
\* handler reads (clickCount, lastClickTime,
\* scrollHistory, startTime, the rotation and the centre of a gesture) are
\* left out; touches keeps the insertion order of the Map
NewInteractions ==
  [isActive |-> FALSE, container |-> NoElement, listeners |-> {},
   connectedSystems |-> {},
   mouse |-> [x |-> 50, y |-> 50, isDown |-> FALSE, lastX |-> 50,
              lastY |-> 50, velocity |-> <<0, 0>>, intensity |-> 0],
   touches |-> <<>>, pinchDistance |-> 0,
   polychora6DState |-> [set |-> FALSE,
                         baseRotations |-> [i \in 1..6 |-> 0]]]

\* the page around the engine: whether the canvas areas are in the document
\* when initialize runs, the fingers on the screen with the element each went
\* down on, the parameters of the connected systems, the pending timeouts
\* that reset chaos, and the numbers of events dispatched and of calls made
NewPage(areas) ==
  [areas |-> areas, fingers |-> <<>>,
   store |-> [s \in Systems |-> [q \in IParams |-> 0]],
   timeouts |-> 0, events |-> 0, calls |-> 0]

\* the last event dispatched: whether preventDefault was called on it and
\* the parameters the interaction engine wrote while handling it
NoInput == [type |-> "none", target |-> NoElement, prevented |-> FALSE,
            wrote |-> {}]

IStart ==
  /\ ie = NewInteractions
  /\ page = NewPage(TRUE)
  /\ input = NoInput

\* the state a handler of the engine works on
IState == [ie |-> ie, store |-> page.store, timeouts |-> page.timeouts,
           prevented |-> FALSE, wrote |-> {}]

\* system.updateParameter(param, value) of the connected system
IUpdate(S, s, q, value) ==
  [S EXCEPT !.store[s][q] = value, !.wrote = @ \cup {<<s, q>>}]

Connected(S, s) == s \in S.ie.connectedSystems

\* setupSelectiveEventListeners: the mouse and touch listeners are added,
\* then this.handleGestureStart, which the class does not define, is read and
\* .bind throws
setupSelectiveEventListeners(e, element) ==
  [e EXCEPT !.listeners = @ \cup {element}]

\* initialize(container): setupEventListeners throws on the first element,
\* so this.isActive = true is not reached
initialize(e, container, areas) ==
  LET e1 == [e EXCEPT !.container = container]
  IN IF ~areas THEN setupSelectiveEventListeners(e1, e1.container)
     ELSE setupSelectiveEventListeners(e1, canvasAreas[1])

\* handleSystemMouseMove
handleSystemMouseMove(S, s) ==
  CASE s = "faceted" ->
         IUpdate(IUpdate(S, s, "rot4dXW",
                         ((S.ie.mouse.x - 50) * 2 * MilliPi) \div 100),
                 s, "rot4dYW", ((S.ie.mouse.y - 50) * 2 * MilliPi) \div 100)
    [] s = "quantum" ->
         IUpdate(IUpdate(S, s, "hue", 200 + (S.ie.mouse.x * 120) \div 100),
                 s, "saturation", 6000 + S.ie.mouse.y * 40)
    [] OTHER -> S

\* connectedSystems.forEach(handler): the handler of a system writes to
\* that system alone, so the order of the Map does not show
ForEachSystem(S, h(_, _)) ==
  LET S1 == IF Connected(S, "faceted") THEN h(S, "faceted") ELSE S
      S2 == IF Connected(S, "quantum") THEN h(S1, "quantum") ELSE S1
      S3 == IF Connected(S, "holographic") THEN h(S2, "holographic") ELSE S2
  IN IF Connected(S, "polychora") THEN h(S3, "polychora") ELSE S3

\* handleMouseMove
handleMouseMove(S, p) ==
  IF ~S.ie.isActive THEN S
  ELSE LET m == S.ie.mouse
           vx == p[1] - m.lastX
           vy == p[2] - m.lastY
           m1 == [m EXCEPT !.velocity = <<vx, vy>>, !.lastX = m.x,
                           !.lastY = m.y, !.x = p[1], !.y = p[2],
                           !.intensity = Min(100, sqrt(vx * vx + vy * vy) * 20)]
       IN ForEachSystem([S EXCEPT !.ie.mouse = m1],
                        handleSystemMouseMove)

\* handleMouseDown / handleMouseUp
handleMouseButton(S, down) ==
  IF ~S.ie.isActive THEN S ELSE [S EXCEPT !.ie.mouse.isDown = down]

\* handleSystemClick: only the faceted mapping has a click entry
handleSystemClick(S, s) ==
  IF s = "faceted"
  THEN [IUpdate(S, s, "chaos", 80) EXCEPT !.timeouts = @ + 1]
  ELSE S

\* handleCanvasClick
handleCanvasClick(S, target) ==
  IF ~S.ie.isActive THEN S
  ELSE IF isUIElement(target) THEN S
  ELSE ForEachSystem(S, handleSystemClick)

\* handleSystemDoubleClick: the polychora mapping names its entry doubleTap,
\* so mapping.doubleClick is undefined for it
handleSystemDoubleClick(S, s) ==
  IF s = "faceted"
  THEN [IUpdate(S, s, "chaos", 200) EXCEPT !.timeouts = @ + 1]
  ELSE S

\* handleDoubleClick
handleDoubleClick(S) ==
  IF ~S.ie.isActive THEN S
  ELSE ForEachSystem(S, handleSystemDoubleClick)

\* handleSystemScroll
handleSystemScroll(S, s, scrollDelta) ==
  IF s # "faceted" THEN S
  ELSE LET currentGeometry == S.store[s]["geometry"]
           step == IF scrollDelta > 0 THEN 1 ELSE -1
           g == currentGeometry + step
           newGeometry == IF g > 7 THEN 0 ELSE IF g < 0 THEN 7 ELSE g
       IN IUpdate(S, s, "geometry", newGeometry)

\* handleWheel
handleWheel(S, deltaY) ==
  IF ~S.ie.isActive THEN S
  ELSE LET h(T, s) == handleSystemScroll(T, s, deltaY)
       IN ForEachSystem([S EXCEPT !.prevented = TRUE], h)

\* this.touches.set(identifier, ...)
TouchSet(touches, id, p) ==
  IF \E i \in 1..Len(touches) : touches[i].id = id
  THEN [i \in 1..Len(touches) |->
          IF touches[i].id = id THEN [id |-> id, x |-> p[1], y |-> p[2]]
          ELSE touches[i]]
  ELSE Append(touches, [id |-> id, x |-> p[1], y |-> p[2]])

\* this.touches.delete(identifier)
TouchDelete(touches, id) == SelectSeq(touches, LAMBDA t : t.id # id)

\* updateGestureState, in hundredths
updateGestureState(e) ==
  IF Len(e.touches) < 2 THEN e
  ELSE LET dx == e.touches[1].x - e.touches[2].x
           dy == e.touches[1].y - e.touches[2].y
       IN [e EXCEPT !.pinchDistance = sqrt(dx * dx + dy * dy)]

\* setupPolychora6DControl
setupPolychora6DControl(S, s) ==
  [S EXCEPT !.ie.polychora6DState =
     [set |-> TRUE,
      baseRotations |-> [i \in 1..6 |-> S.store[s][RotationParams[i]]]]]

\* updatePolychora6DControl: the i-th touch turns the i-th plane
RECURSIVE updatePolychora6DControl(_, _, _)
updatePolychora6DControl(S, s, i) ==
  IF ~S.ie.polychora6DState.set THEN S
  ELSE IF i > Min(6, Len(S.ie.touches)) THEN S
  ELSE updatePolychora6DControl(
         IUpdate(S, s, RotationParams[i],
                 S.ie.polychora6DState.baseRotations[i]
                   + ((S.ie.touches[i].x - 50) * 2 * MilliPi) \div 100),
         s, i + 1)

\* handleSystemTouchStart
handleSystemTouchStart(S, s) ==
  CASE s = "quantum" /\ Len(S.ie.touches) = 1 ->
         IUpdate(IUpdate(S, s, "intensity", 150), s, "mouseIntensity", 150)
    [] s = "polychora" /\ Len(S.ie.touches) >= 2 ->
         setupPolychora6DControl(S, s)
    [] OTHER -> S

\* handleSystemTouchMove
handleSystemTouchMove(S, s) ==
  CASE s = "quantum" /\ Len(S.ie.touches) >= 2 ->
         LET pinchScale == Max(10, Min(300, S.ie.pinchDistance * 2))
         IN IUpdate(S, s, "gridDensity", 500 + (9500 * pinchScale) \div 300)
    [] s = "polychora" /\ Len(S.ie.touches) >= 2 ->
         updatePolychora6DControl(S, s, 1)
    [] OTHER -> S

\* handleTouchStart: fingers is event.touches, id the changed touch
handleTouchStart(S, fingers, id, p) ==
  IF ~S.ie.isActive THEN S
  ELSE IF Len(fingers) > 0 /\ isUIElement(fingers[1].target) THEN S
  ELSE LET e == updateGestureState(
                  [S.ie EXCEPT !.touches = TouchSet(@, id, p)])
       IN ForEachSystem([S EXCEPT !.prevented = TRUE, !.ie = e],
                        handleSystemTouchStart)

\* handleTouchMove
handleTouchMove(S, fingers, id, p) ==
  IF ~S.ie.isActive THEN S
  ELSE IF Len(fingers) > 0 /\ isUIElement(fingers[1].target) THEN S
  ELSE LET known == \E i \in 1..Len(S.ie.touches) : S.ie.touches[i].id = id
           e == updateGestureState(
                  [S.ie EXCEPT !.touches =
                     IF known THEN TouchSet(@, id, p) ELSE @])
       IN ForEachSystem([S EXCEPT !.prevented = TRUE, !.ie = e],
                        handleSystemTouchMove)

\* handleTouchEnd: target is changedTouches[0].target
handleTouchEnd(S, target, id) ==
  IF ~S.ie.isActive THEN S
  ELSE IF isUIElement(target) THEN S
  ELSE [S EXCEPT !.ie = updateGestureState(
                          [S.ie EXCEPT !.touches = TouchDelete(@, id)])]

\* ------------------------------------------------- the canvas manager
\* CanvasManager caches one engine per system in this.engines; an engine is
\* the sequence of the gl of its visualizers, each "valid", "lost"
\* (isContextLost()) or "nogl" (no context was granted), and gen numbers the
\* instances constructed for the system

NotCached == [cached |-> FALSE, gen |-> 0, visualizers |-> <<>>]

isEngineHealthy(engine) ==
  IF ~engine.cached THEN FALSE
  ELSE IF Len(engine.visualizers) = 0 THEN FALSE
  ELSE \E i \in DOMAIN engine.visualizers : engine.visualizers[i] = "valid"

\* new engineClasses.X(): n visualizers, each with the context the driver
\* grants
newEngine(old, n, granted) ==
  [cached |-> TRUE, gen |-> old.gen + 1,
   visualizers |-> [i \in 1..n |-> IF granted THEN "valid" ELSE "nogl"]]

\* getOrCreateEngine(systemName, engineClasses): the cache after the call
\* and what the call did
getOrCreateEngine(E, s, classes, n, granted) ==
  IF E[s].cached /\ isEngineHealthy(E[s])
  THEN [engines |-> E, op |-> "reuse"]
  ELSE LET E1 == IF E[s].cached
                 THEN [E EXCEPT ![s].cached = FALSE] ELSE E
       IN IF s \in classes
          THEN [engines |-> [E1 EXCEPT ![s] = newEngine(E[s], n, granted)],
                op |-> "create"]
          ELSE [engines |-> E1, op |-> "null"]

NoCanvasEvent == [op |-> "none", sys |-> NoSystem]

MStart ==
  /\ cm = [s \in Systems |-> NotCached]
  /\ cmEvent = NoCanvasEvent

\* ---------------------------------------------- audio features: energy
\* processAudioFeatures of UniversalAudioEngine from the overall energy on:
\* energies in hundredths, products of two energies and the rhythm in
\* ten-thousandths, transients in hundredths

HistoryLength == 60    \* new Array(60).fill(0)
windowSize == 15       \* const windowSize = 15

\* energyHistory[k]: undefined outside the array
historyAt(H, k) == IF k + 1 \in DOMAIN H THEN Num(H[k + 1]) ELSE Undef

\* a * b, a + b, a / n, Math.max(a, b) and Math.min(a, b) on numbers and
\* undefined: undefined converts to NaN and NaN is contagious
times(a, b) ==
  IF a.t = "number" /\ b.t = "number" THEN Num(a.n * b.n) ELSE NaN
plus(a, b) ==
  IF a.t = "number" /\ b.t = "number" THEN Num(a.n + b.n) ELSE NaN
over(a, n) == IF a.t = "number" THEN Num(a.n \div n) ELSE NaN
mathMax(a, b) ==
  IF a.t = "number" /\ b.t = "number" THEN Num(Max(a.n, b.n)) ELSE NaN
mathMin(a, b) ==
  IF a.t = "number" /\ b.t = "number" THEN Num(Min(a.n, b.n)) ELSE NaN

\* the inner loop of detectRhythm for one i: the sum of the fifteen
\* products, NaN as soon as one of them is
correlation(H, i) ==
  LET term == [j \in 1..windowSize |->
                 times(historyAt(H, i + j - 1),
                       historyAt(H, i + j - 1 + windowSize))]
  IN IF \E j \in 1..windowSize : term[j].t # "number" THEN NaN
     ELSE Num(Sum([j \in 1..windowSize |-> term[j].n]))

\* the outer loop of detectRhythm: Math.max of 0 and every
\* correlation / windowSize, NaN as soon as one of them is
rhythmStrength(H) ==
  LET last == Len(H) - windowSize - 1
      c == [i \in 0..last |-> over(correlation(H, i), windowSize)]
  IN IF \E i \in 0..last : c[i].t # "number" THEN NaN
     ELSE Num(CHOOSE m \in {0} \cup {c[i].n : i \in 0..last} :
                \A i \in 0..last : c[i].n <= m)

\* detectRhythm()
detectRhythm(H) == 
  mathMin(times(rhythmStrength(H), Num(2)), Num(Unit))

\* the indices detectRhythm reads
rhythmReads(H) ==
  {i + j : i \in 0..(Len(H) - windowSize - 1), j \in 0..(windowSize - 1)}
    \cup {i + j + windowSize :
            i \in 0..(Len(H) - windowSize - 1), j \in 0..(windowSize - 1)}

\* updateEnergyHistory()
updateEnergyHistory(F) ==
  [F EXCEPT !.energyHistory[F.historyIndex + 1] = F.energy,
            !.historyIndex = (F.historyIndex + 1) % Len(F.energyHistory)]

\* processAudioFeatures() from the overall energy on, for a frame whose
\* energy is e; before is the energy of the frame processed before it
processAudioFeatures(F, e) ==
  LET prevEnergy == F.energyHistory[F.historyIndex + 1]
      energyDelta == e - prevEnergy
      F1 == [F EXCEPT !.before = F.energy,
                      !.energy = e,
                      !.transients = Max(0, energyDelta * 10)]
      F2 == updateEnergyHistory(F1)
  IN [F2 EXCEPT !.rhythm = detectRhythm(F2.energyHistory),
                !.frames = @ + 1]

NewFeatures ==
  [energy |-> 0, transients |-> 0, rhythm |-> Num(0), before |-> 0,
   energyHistory |-> [k \in 1..HistoryLength |-> 0], historyIndex |-> 0,
   frames |-> 0]

FStart == af = NewFeatures

\* ------------------------------------------------ the tilt controller
\* HolographicTiltController for one rotation plane (the three planes go
\* through the same arithmetic), angles in thousandths of a radian

\* wrapRotation(value)
RECURSIVE wrapRotation(_)
wrapRotation(value) ==
  IF value > MilliPi THEN wrapRotation(value - 2 * MilliPi)
  ELSE IF value < -MilliPi THEN wrapRotation(value + 2 * MilliPi)
  ELSE value

\* apply4DRotationTilt(offsets): base + tilt offset, wrapped and handed to
\* the holographic system when it is the current system
apply4DRotationTilt(T, offset, onHolo) ==
  IF ~onHolo THEN T
  ELSE [T EXCEPT !.final = T.base + offset,
                 !.applied = wrapRotation(T.base + offset),
                 !.updates = @ + 1]

NewTilt == [isActive |-> FALSE, base |-> 0, final |-> 0, applied |-> 0,
            updates |-> 0]

TStart == tilt = NewTilt

\* ---------------------------------------------------- mobile WebGL fix
\* window.MobileWebGLFix. A context is named by the canvas that owns it;
\* a call yields a context, "null", or "RangeError" when the calls nest
\* deeper than the engine's stack allows.

Canvases == {"c1", "c2"}
maxContexts == 8       \* maxContexts: 8
StackLimit == 4        \* nested calls of one function the stack holds

\* what the last request for a context yielded, and whether it went through
\* the replacement
NoResult == [value |-> "none", patched |-> FALSE]

NewMobile(mobile) ==
  [isMobile |-> mobile, installed |-> FALSE, activeContexts |-> 0,
   contextPool |-> <<>>, listeners |-> [c \in Canvases |-> 0],
   gl |-> [c \in Canvases |-> "none"], calls |-> 0, result |-> NoResult]

\* HTMLCanvasElement.prototype.getContext as the browser defines it, for a
\* WebGL type: the canvas keeps one context; the driver grants a new one or
\* does not
originalGetContext(M, c, grant) ==
  IF M.gl[c] # "none" THEN [M |-> M, value |-> c]
  ELSE IF grant THEN [M |-> [M EXCEPT !.gl[c] = "live"], value |-> c]
  ELSE [M |-> M, value |-> "null"]

\* contextPool.set(id, gl): a key already present keeps its place
poolSet(P, id, gl) ==
  IF \E k \in DOMAIN P : P[k][1] = id
  THEN [k \in DOMAIN P |-> IF P[k][1] = id THEN <<id, gl>> ELSE P[k]]
  ELSE Append(P, <<id, gl>>)

\* reuseExistingContext(canvas)
reuseExistingContext(M, c) ==
  IF Len(M.contextPool) > 0
  THEN [M |-> [M EXCEPT !.contextPool =
                          poolSet(Tail(M.contextPool), c, M.contextPool[1][2])],
        value |-> M.contextPool[1][2]]
  ELSE [M |-> M, value |-> "null"]

\* createMobileWebGLContext(canvas, options) as the d-th nested call of
\* itself; its canvas.getContext calls go to the replacement once that is
\* installed, and the attempts for 'webgl', 'experimental-webgl' and
\* 'webgl2' are one attempt, the driver granting all or none
RECURSIVE createMobileWebGLContext(_, _, _, _)
createMobileWebGLContext(M, c, grant, d) ==
  IF d > StackLimit THEN [M |-> M, value |-> "RangeError"]
  ELSE IF ~M.isMobile THEN originalGetContext(M, c, grant)
  ELSE IF M.activeContexts >= maxContexts THEN reuseExistingContext(M, c)
  ELSE LET r == IF M.installed
                THEN createMobileWebGLContext(M, c, grant, d + 1)
                ELSE originalGetContext(M, c, grant)
       IN IF r.value \in {"null", "RangeError"} THEN r
          ELSE [M |-> [r.M EXCEPT
                         !.activeContexts = @ + 1,
                         !.contextPool = poolSet(@, c, r.value),
                         !.listeners[c] = @ + 1],
                value |-> r.value]

\* the replacement of getContext that initializeMobileFixes installs, for a
\* context type that includes 'webgl'
patchedGetContext(M, c, grant) == createMobileWebGLContext(M, c, grant, 1)

\* initializeMobileFixes()
initializeMobileFixes(M) ==
  IF ~M.isMobile THEN M ELSE [M EXCEPT !.installed = TRUE]

WStart == mob = NewMobile(FALSE)

\* state of the parts no run of the pool or of the router touches
XStart ==
  /\ holo = NewHolo(0)
  /\ hcalls = 0
  /\ AStart
  /\ NStart
  /\ GStart
  /\ IStart
  /\ MStart
  /\ FStart
  /\ TStart
  /\ WStart

\* ------------------------------------------------------------- actions
Start ==
  /\ activeSystem = NoSystem
  /\ ctx = [s \in Systems |-> [i \in Layer |-> "none"]]
  /\ listener = [s \in Systems |-> [i \in Layer |-> FALSE]]
  /\ timers = {}
  /\ layers = [s \in Systems |-> Hidden]
  /\ engines = [s \in Systems |-> NoEngine]
  /\ gpuOk \in BOOLEAN
  /\ calls = [x \in Slots |-> IdleCall]
  /\ event = NoEvent
  /\ ops = 0
  /\ pre = 0
  /\ losses = 0
  /\ toggles = 0
  /\ superseded = {}
  /\ lastTarget = NoSystem
  /\ lostActive = NoSystem

Init == Start /\ budget = MaxEvents /\ RStart /\ XStart

InitLong == Start /\ budget = LongEvents /\ RStart /\ XStart

\* switchToSystem(T) with T the active system
SwitchSame(T) ==
  /\ ops < MaxSwitch
  /\ Events < budget
  /\ activeSystem = T
  /\ LET r == switchSame(Cur, T)
     IN /\ Commit(r.st)
        /\ event' = [op |-> "same", sys |-> T, ok |-> r.ok, cap |-> FALSE,
                      prev |-> T, prevOk |-> Running(T)]
  /\ ops' = ops + 1
  /\ lastTarget' = T
  /\ UNCHANGED <<rvars, xvars>>
  /\ UNCHANGED <<gpuOk, calls, pre, losses, toggles, superseded, lostActive, budget>>

\* switchToSystem(T) with another system, or none, active
SwitchToSystem(c, T) ==
  /\ ops < MaxSwitch
  /\ Events < budget
  /\ FreeSlot(c)
  /\ activeSystem # T
  /\ LET r == switchPrefix(Cur, T, gpuOk)
         g == [cap |-> CapScenario(T), prev |-> activeSystem,
               prevOk |-> activeSystem # NoSystem /\ Running(activeSystem)]
     IN /\ Commit(r.st)
        /\ Suspend(c, "switch", T, g, r)
        /\ event' = Done("switch", T, r, g)
  /\ ops' = ops + 1
  /\ lastTarget' = T
  /\ superseded' =
       IF InFlight = {} THEN {}
       ELSE superseded \cup
            ({calls[x].target : x \in {y \in InFlight :
                 /\ calls[y].kind = "switch"
                 /\ calls[y].pc \in {"pace", "stabilize"}}} \ {T})
  /\ lostActive' = NoSystem
  /\ UNCHANGED <<rvars, xvars>>
  /\ UNCHANGED <<gpuOk, pre, losses, toggles, budget>>

\* preloadSystem(T): createSystemContexts is started and not awaited
PreloadSystem(c, T) ==
  /\ pre < MaxPreload
  /\ Events < budget
  /\ FreeSlot(c)
  /\ LET r == createSystemContexts(Cur, T, gpuOk)
     IN /\ Commit(r.st)
        /\ Suspend(c, "preload", T, NoGhost, r)
        /\ event' = NoEvent
  /\ pre' = pre + 1
  /\ superseded' = IF InFlight = {} THEN {} ELSE superseded
  /\ lostActive' = NoSystem
  /\ UNCHANGED <<rvars, xvars>>
  /\ UNCHANGED <<gpuOk, ops, losses, toggles, lastTarget, budget>>

\* the timeout a call is suspended at fires and the call runs on
Resume(c) ==
  /\ calls[c].pc # "idle"
  /\ calls[c].after = {}
  /\ LET k == calls[c].kind
         T == calls[c].target
         i == calls[c].i
         pc == calls[c].pc
         body == paceBody(Cur, T, i, gpuOk)
         r == CASE pc = "cleanup" -> cscAfterCleanup(Cur, T, gpuOk)
                [] pc = "visible" -> R(Cur, "pace", 1, FALSE)
                [] pc = "pace" ->
                     IF body.exit = "return" THEN cscDone(body.st, k, T, gpuOk)
                     ELSE IF i < LayerCount THEN R(body.st, "pace", i + 1, FALSE)
                     ELSE R(body.st, "stabilize", 0, FALSE)
                [] pc = "stabilize" -> cscDone(Cur, k, T, gpuOk)
                [] pc = "engine" -> createEngineForSystem(Cur, T, gpuOk)
                [] pc = "reinit" -> reinitAndActivate(Cur, T)
     IN /\ Commit(r.st)
        /\ Suspend(c, k, T, calls[c], r)
        /\ event' = Done(k, T, r, calls[c])
  /\ UNCHANGED <<rvars, xvars>>
  /\ UNCHANGED <<gpuOk, ops, pre, losses, toggles, superseded, lastTarget,
                 lostActive, budget>>

\* the driver starts or stops granting new contexts
DriverChange ==
  /\ toggles < MaxToggle
  /\ Events < budget
  /\ gpuOk' = ~gpuOk
  /\ toggles' = toggles + 1
  /\ event' = NoEvent
  /\ UNCHANGED <<rvars, xvars>>
  /\ UNCHANGED <<activeSystem, ctx, listener, timers, layers, engines, calls,
                 ops, pre, losses, superseded, lastTarget, lostActive, budget>>

\* the driver loses the context of one canvas; the webglcontextlost handler,
\* when one is attached, arms the recovery timeout
ContextLost(s, i) ==
  /\ losses < MaxLoss
  /\ Events < budget
  /\ ctx[s][i] = "live"
  /\ ctx' = [ctx EXCEPT ![s][i] = "lost"]
  /\ timers' = IF listener[s][i] THEN timers \cup {<<s, i>>} ELSE timers
  /\ losses' = losses + 1
  /\ lostActive' = IF Healthy(s) /\ InFlight = {} THEN s ELSE lostActive
  /\ event' = NoEvent
  /\ UNCHANGED <<rvars, xvars>>
  /\ UNCHANGED <<activeSystem, listener, layers, engines, gpuOk, calls, ops,
                 pre, toggles, superseded, lastTarget, budget>>

\* the browser restores a lost context whose loss event was preventDefault-ed
ContextRestored(s, i) ==
  /\ ctx[s][i] = "lost"
  /\ listener[s][i]
  /\ ctx' = [ctx EXCEPT ![s][i] = "live"]
  /\ event' = NoEvent
  /\ UNCHANGED <<rvars, xvars>>
  /\ UNCHANGED <<activeSystem, listener, timers, layers, engines, gpuOk,
                 calls, ops, pre, losses, toggles, superseded, lastTarget,
                 lostActive, budget>>

\* the recovery timeout fires: recoverLostContext asks for the context again
\* and reports whether it is usable
RecoverLostContext(s, i) ==
  /\ <<s, i>> \in timers
  /\ timers' = timers \ {<<s, i>>}
  /\ ctx' = [ctx EXCEPT ![s][i] = getContext(ctx[s][i], gpuOk)]
  /\ event' = NoEvent
  /\ UNCHANGED <<rvars, xvars>>
  /\ UNCHANGED <<activeSystem, listener, layers, engines, gpuOk, calls, ops,
                 pre, losses, toggles, superseded, lastTarget, lostActive, budget>>

Next ==
  \/ \E T \in Systems : SwitchSame(T)
  \/ \E c \in Slots, T \in Systems : SwitchToSystem(c, T)
  \/ \E c \in Slots, T \in Systems : PreloadSystem(c, T)
  \/ \E c \in Slots : Resume(c)
  \/ DriverChange
  \/ \E s \in Systems, i \in 1..MaxLossLayer : ContextLost(s, i)
  \/ \E s \in Systems, i \in Layer : ContextRestored(s, i)
  \/ \E s \in Systems, i \in Layer : RecoverLostContext(s, i)

Spec == Init /\ [][Next]_vars

\* the same program over longer runs
SpecLong == InitLong /\ [][Next]_vars

\* ------------------------------------------------- reactivity: the actions
\* positions of the pointer over a canvas, in hundredths of its width and
\* height, and values of WheelEvent.deltaY
Points == {<<50, 50>>, <<100, 0>>}
Deltas == {-100, 0, 100}

\* the page of the router and of the engines, the pool untouched
RInit == Start /\ gpuOk /\ budget = 0 /\ RStart /\ XStart

PoolRest == <<gpuOk, calls, event, ops, pre, losses, toggles, superseded,
              lastTarget, lostActive, budget, xvars>>

PoolIdle == UNCHANGED <<activeSystem, ctx, listener, timers, layers, engines>>
              /\ UNCHANGED PoolRest

\* the last line of ReactivityManager.js
LoadRouter ==
  /\ ~rm.loaded
  /\ RCommit([Fresh EXCEPT !.rm = NewRouter])
  /\ frame' = NoFrame
  /\ UNCHANGED <<stale, rejected, inputs, frames>>
  /\ PoolIdle

\* new QuantumEngine() / new RealHolographicSystem()
ConstructEngine(e) ==
  /\ ~engines[e].exists
  /\ LET st == createVisualizers(Cur, e, gpuOk)
         X0 == [Fresh EXCEPT !.native[e] =
                  [NoNative EXCEPT
                     !.useBuiltInReactivity = ~rm.loaded,
                     !.listening = IF e = "quantum" THEN ~rm.loaded ELSE TRUE]]
         r == nativeEffects(X0, st.engines, e)
         X1 == IF ~X0.native[e].listening THEN X0
               ELSE IF r.again
               THEN [r.X EXCEPT !.raf = Append(r.X.raf, <<"native", e>>)]
               ELSE r.X
     IN /\ Commit(st)
        /\ RCommit([X1 EXCEPT !.raf = Append(X1.raf, <<"render", e>>)])
  /\ frame' = NoFrame
  /\ UNCHANGED <<stale, rejected, inputs, frames>>
  /\ UNCHANGED PoolRest

\* engine.setActive(active)
EngineSetActive(e, active) ==
  /\ inputs < RMaxInputs
  /\ engines[e].exists
  /\ Commit(setActive(Cur, e, active))
  /\ RCommit(Fresh)
  /\ frame' = NoFrame
  /\ inputs' = inputs + 1
  /\ UNCHANGED <<stale, rejected, frames>>
  /\ UNCHANGED PoolRest

\* engine.destroy(): the visualizers are destroyed and the list emptied;
\* isActive, the queued callbacks and the canvas listeners are left as they are
EngineDestroy(e) ==
  /\ inputs < RMaxInputs
  /\ engines[e].exists
  /\ ~native[e].destroyed
  /\ engines' = [engines EXCEPT ![e].visualizers = 0]
  /\ RCommit([Fresh EXCEPT !.native[e].destroyed = TRUE])
  /\ frame' = NoFrame
  /\ inputs' = inputs + 1
  /\ UNCHANGED <<stale, rejected, frames>>
  /\ UNCHANGED <<activeSystem, ctx, listener, timers, layers>>
  /\ UNCHANGED PoolRest

\* a call of a method of the router that only writes its fields
Configure(r) ==
  /\ inputs < RMaxInputs
  /\ rm.loaded
  /\ RCommit([Fresh EXCEPT !.rm = r])
  /\ frame' = NoFrame
  /\ inputs' = inputs + 1
  /\ UNCHANGED frames
  /\ PoolIdle

SetActiveSystem(s) ==
  /\ Configure(autoSelectDefaults([rm EXCEPT !.activeSystemName = s], s))
  /\ stale' = IF s = rm.activeSystemName THEN stale
              ELSE {n \in ClickModeNames : clickModes[n].isAnimating}
  /\ rejected' = {}

SetMouseMode(m) ==
  /\ Configure(IF m \in MouseModeNames \cup Inherited
               THEN [rm EXCEPT !.currentMouseMode = m] ELSE rm)
  /\ UNCHANGED stale
  /\ rejected' = IF m \in MouseModeNames THEN rejected \ {"mouse"}
                 ELSE rejected \cup {"mouse"}

SetClickMode(m) ==
  /\ Configure(IF m \in ClickModeNames \cup Inherited
               THEN [rm EXCEPT !.currentClickMode = m] ELSE rm)
  /\ UNCHANGED stale
  /\ rejected' = IF m \in ClickModeNames THEN rejected \ {"click"}
                 ELSE rejected \cup {"click"}

SetScrollMode(m) ==
  /\ Configure(IF m \in ScrollModeNames \cup Inherited
               THEN [rm EXCEPT !.currentScrollMode = m] ELSE rm)
  /\ UNCHANGED stale
  /\ rejected' = IF m \in ScrollModeNames THEN rejected \ {"scroll"}
                 ELSE rejected \cup {"scroll"}

ToggleMouse(b) ==
  Configure([rm EXCEPT !.mouseEnabled = b]) /\ UNCHANGED <<stale, rejected>>

ToggleClick(b) ==
  Configure([rm EXCEPT !.clickEnabled = b]) /\ UNCHANGED <<stale, rejected>>

ToggleScroll(b) ==
  Configure([rm EXCEPT !.scrollEnabled = b]) /\ UNCHANGED <<stale, rejected>>

SetEnabled(b) ==
  Configure([rm EXCEPT !.enabled = b]) /\ UNCHANGED <<stale, rejected>>

\* an input event on a canvas of system t: the listeners of the canvas run
\* first, the listeners of the document after them
Input(ev, t, X) ==
  /\ inputs < RMaxInputs
  /\ layers[t].display = "block"
  /\ RCommit(X)
  /\ frame' = ev
  /\ inputs' = inputs + 1
  /\ UNCHANGED frames
  /\ PoolIdle

MouseMove(t, p) ==
  /\ Input([NoFrame EXCEPT !.input = "mouse", !.target = t], t,
           handleGlobalMouseMove(nativeMouseMove(Fresh, engines, t, p), p))
  /\ UNCHANGED <<stale, rejected>>

Click(t, p) ==
  /\ Input([NoFrame EXCEPT !.input = "click", !.target = t], t,
           handleGlobalClick(nativeClick(Fresh, engines, t, p), p))
  /\ UNCHANGED rejected
  /\ stale' = IF rm.loaded /\ rm.enabled /\ rm.clickEnabled
              THEN stale \ {rm.currentClickMode} ELSE stale

Wheel(t, deltaY, next) ==
  /\ Input([NoFrame EXCEPT !.input = "scroll", !.target = t,
                          !.delta = deltaY], t,
           handleGlobalWheel(nativeWheel(Fresh, engines, t, deltaY),
                             deltaY, next))
  /\ UNCHANGED <<stale, rejected>>

\* the callbacks requestAnimationFrame has queued run, in order
Tick ==
  /\ raf # <<>>
  /\ \E S \in {runFrame([X |-> [Fresh EXCEPT !.raf = <<>>],
                          frame |-> [NoFrame EXCEPT !.ran = TRUE]],
                         raf, engines)} :
       RCommit(S.X) /\ frame' = S.frame
  /\ UNCHANGED <<stale, rejected, inputs>>
  /\ PoolIdle

\* one animation frame of a run that counts them
Frame ==
  /\ frames < MaxFrames
  /\ Tick
  /\ frames' = frames + 1

\* one animation frame of a run that lets the page animate for good
FreeFrame == Tick /\ UNCHANGED frames

RNext ==
  \/ LoadRouter
  \/ \E e \in SelfShowing : ConstructEngine(e)
  \/ \E e \in SelfShowing, b \in BOOLEAN : EngineSetActive(e, b)
  \/ \E e \in SelfShowing : EngineDestroy(e)
  \/ \E s \in Systems : SetActiveSystem(s)
  \/ \E m \in MouseModeNames \cup ForeignNames : SetMouseMode(m)
  \/ \E m \in ClickModeNames \cup ForeignNames : SetClickMode(m)
  \/ \E m \in ScrollModeNames \cup ForeignNames : SetScrollMode(m)
  \/ \E b \in BOOLEAN : ToggleMouse(b)
  \/ \E b \in BOOLEAN : ToggleClick(b)
  \/ \E b \in BOOLEAN : ToggleScroll(b)
  \/ \E b \in BOOLEAN : SetEnabled(b)
  \/ \E t \in SelfShowing, p \in Points : MouseMove(t, p)
  \/ \E t \in SelfShowing, p \in Points : Click(t, p)
  \/ \E t \in SelfShowing, d \in Deltas, n \in BOOLEAN : Wheel(t, d, n)
  \/ Frame

\* the router and the engines' built-in reactivity
SpecReact == RInit /\ [][RNext]_vars

DNext ==
  \/ LoadRouter
  \/ \E e \in SelfShowing : ConstructEngine(e)
  \/ \E e \in SelfShowing, b \in BOOLEAN : EngineSetActive(e, b)
  \/ \E m \in ClickModeNames : SetClickMode(m)
  \/ \E t \in SelfShowing, p \in Points : Click(t, p)
  \/ FreeFrame

\* clicks and the frames after them: the browser runs every queued frame
\* callback
SpecDecay == RInit /\ [][DNext]_vars /\ WF_vars(FreeFrame)

\* ------------------------------------------------- reactivity: touch input
\* a finger that went down on a canvas keeps that canvas as the target of its
\* touchmove events, so the position relative to the canvas may leave 0..1
TouchPoints == Points \cup {<<50, 150>>}

\* the fields with a closed range, as hundredths
ParamRange ==
  [gridDensity |-> <<500, 10000>>, morphFactor |-> <<0, 200>>,
   chaos |-> <<0, 100>>, speed |-> <<10, 300>>,
   intensity |-> <<0, 100>>, saturation |-> <<0, 100>>]

InRange(f, v) == ParamRange[f][1] <= v /\ v <= ParamRange[f][2]

\* ParameterManager.setParameter, getParameter
clampParameter(f, v) == Max(ParamRange[f][1], Min(ParamRange[f][2], v))

\* window.updateParameter(f, v) on engine e, then the engine's getParameters:
\* RealHolographicSystem keeps the value in customParams as it came, the
\* other engines keep it in their ParameterManager
getParameters(e, f, v) == IF e = "holographic" THEN v ELSE clampParameter(f, v)

\* the touchmove listeners an engine attached to its canvases
nativeTouchMove(X, E, t, p) == nativeMouseMove(X, E, t, p)

\* ReactivityManager.handleGlobalTouchMove
handleGlobalTouchMove(X, p) == handleGlobalMouseMove(X, p)

TouchMove(t, p) ==
  /\ Input([NoFrame EXCEPT !.input = "touch", !.target = t], t,
           handleGlobalTouchMove(nativeTouchMove(Fresh, engines, t, p), p))
  /\ UNCHANGED <<stale, rejected>>

TNext ==
  \/ LoadRouter
  \/ \E e \in SelfShowing : ConstructEngine(e)
  \/ \E e \in SelfShowing, b \in BOOLEAN : EngineSetActive(e, b)
  \/ \E s \in Systems : SetActiveSystem(s)
  \/ \E m \in MouseModeNames : SetMouseMode(m)
  \/ \E t \in SelfShowing, p \in Points : MouseMove(t, p)
  \/ \E t \in SelfShowing, p \in TouchPoints : TouchMove(t, p)
  \/ \E t \in SelfShowing, p \in Points : Click(t, p)
  \/ \E t \in SelfShowing, d \in Deltas, n \in BOOLEAN : Wheel(t, d, n)
  \/ Frame

\* pointer, touch and wheel input on the canvases
SpecTouch == RInit /\ [][TNext]_vars

\* ------------------------------------------- holographic variants: actions
MaxHoloCalls == 3   \* setVariant / updateParameter calls of a run
Variants == {-1, 5, 6, 30}
HValues == {42, 7}

\* new RealHolographicSystem(): one visualizer per canvas that got a context
HInit ==
  /\ Start /\ gpuOk /\ budget = 0 /\ RStart
  /\ holo \in {NewHolo(n) : n \in 0..LayerCount}
  /\ hcalls = 0
  /\ AStart
  /\ NStart
  /\ GStart
  /\ IStart
  /\ MStart
  /\ FStart
  /\ TStart
  /\ WStart

\* holographicSystem.setVariant(variant)
SetVariant(variant) ==
  /\ hcalls < MaxHoloCalls
  /\ holo' = updateVariant(holo, variant)
  /\ hcalls' = hcalls + 1
  /\ UNCHANGED <<poolVars, rvars, avars, nvars, gvars, ivars, mvars, fvars, tvars, wvars>>

\* holographicSystem.updateParameter(param, value)
UpdateParameter(param, value) ==
  /\ hcalls < MaxHoloCalls
  /\ \E shown \in BOOLEAN : holo' = updateParameter(holo, param, value, shown)
  /\ hcalls' = hcalls + 1
  /\ UNCHANGED <<poolVars, rvars, avars, nvars, gvars, ivars, mvars, fvars, tvars, wvars>>

HNext ==
  \/ \E v \in Variants : SetVariant(v)
  \/ \E p \in HParams, x \in HValues : UpdateParameter(p, x)

\* variant changes and parameter overrides of the holographic engine
SpecHolo == HInit /\ [][HNext]_vars

\* ----------------------------------------------------------- audio: actions
MaxAudioCalls == 5   \* calls and frames of a run
CycleSteps == {0, 7}  \* values of Math.floor((Date.now() / 2000) % 8) drawn

AInit ==
  /\ Start /\ gpuOk /\ budget = 0 /\ RStart
  /\ holo = NewHolo(0) /\ hcalls = 0
  /\ AStart
  /\ NStart
  /\ GStart
  /\ IStart
  /\ MStart
  /\ FStart
  /\ TStart
  /\ WStart

AudioRest == <<poolVars, rvars, hvars, nvars, gvars, ivars, mvars, fvars, tvars, wvars>>

\* navigator.mediaDevices.getUserMedia() called by owner o
RequestMedia(o) == media' = [media EXCEPT ![o] = @ + 1]

\* universalAudio.initialize() up to its await
AudioInitialize ==
  /\ acalls < MaxAudioCalls
  /\ RequestMedia("universal")
  /\ acalls' = acalls + 1
  /\ UNCHANGED <<ua, connected, qa, ha, winAudio, qparams, streams, alast>>
  /\ UNCHANGED AudioRest

\* universalAudio.connectSystem(systemName, systemInstance)
ConnectSystem(s) ==
  /\ acalls < MaxAudioCalls
  /\ s \notin connected
  /\ connected' = connected \cup {s}
  /\ acalls' = acalls + 1
  /\ UNCHANGED <<ua, qa, ha, winAudio, qparams, media, streams, alast>>
  /\ UNCHANGED AudioRest

\* universalAudio.disconnectSystem(systemName)
DisconnectSystem(s) ==
  /\ acalls < MaxAudioCalls
  /\ s \in connected
  /\ connected' = connected \ {s}
  /\ acalls' = acalls + 1
  /\ UNCHANGED <<ua, qa, ha, winAudio, qparams, media, streams, alast>>
  /\ UNCHANGED AudioRest

\* the page's audio toggle writing window.audioEnabled
WindowAudio(v) ==
  /\ acalls < MaxAudioCalls
  /\ winAudio # v
  /\ winAudio' = v
  /\ acalls' = acalls + 1
  /\ UNCHANGED <<ua, connected, qa, ha, qparams, media, streams, alast>>
  /\ UNCHANGED AudioRest

\* quantumEngine.setActive(active)
QSetActive(active) ==
  /\ acalls < MaxAudioCalls
  /\ qa.isActive # active
  /\ qa' = [qa EXCEPT !.isActive = active]
  /\ IF active /\ winAudio = "true" /\ ~qa.audioEnabled
       THEN RequestMedia("quantum")
       ELSE UNCHANGED media
  /\ acalls' = acalls + 1
  /\ UNCHANGED <<ua, connected, ha, winAudio, qparams, streams, alast>>
  /\ UNCHANGED AudioRest

\* quantumEngine.toggleAudio(enabled)
QToggleAudio(enabled) ==
  /\ acalls < MaxAudioCalls
  /\ IF enabled /\ qa.isActive /\ ~qa.audioEnabled
       THEN RequestMedia("quantum") /\ UNCHANGED qa
     ELSE IF ~enabled /\ qa.audioEnabled
       THEN /\ qa' = [qa EXCEPT !.audioEnabled = FALSE, !.audioContext = FALSE]
            /\ UNCHANGED media
     ELSE UNCHANGED <<qa, media>>
  /\ acalls' = acalls + 1
  /\ UNCHANGED <<ua, connected, ha, winAudio, qparams, streams, alast>>
  /\ UNCHANGED AudioRest

\* holographicSystem.setActive(active); initAudio() makes its context and
\* analyser before it awaits getUserMedia
HSetActive(active) ==
  /\ acalls < MaxAudioCalls
  /\ ha.isActive # active
  /\ IF active /\ ~ha.audioEnabled /\ winAudio = "true"
       THEN /\ ha' = [ha EXCEPT !.isActive = active, !.audioContext = TRUE,
                                !.analyser = TRUE]
            /\ RequestMedia("holographic")
       ELSE /\ ha' = [ha EXCEPT !.isActive = active]
            /\ UNCHANGED media
  /\ acalls' = acalls + 1
  /\ UNCHANGED <<ua, connected, qa, winAudio, qparams, streams, alast>>
  /\ UNCHANGED AudioRest

\* a getUserMedia() promise of owner o settles: the continuation of
\* initialize(), enableAudio() or initAudio(), or its catch block
MediaSettles(o, granted) ==
  /\ media[o] > 0
  /\ media' = [media EXCEPT ![o] = @ - 1]
  /\ streams' = IF granted THEN [streams EXCEPT ![o] = @ + 1] ELSE streams
  /\ ua' = IF o = "universal" /\ granted
             THEN [isActive |-> TRUE, analyser |-> TRUE] ELSE ua
  /\ qa' = IF o # "quantum" THEN qa
           ELSE IF granted
             THEN [qa EXCEPT !.audioEnabled = TRUE, !.analyser = TRUE,
                             !.audioContext = TRUE]
           ELSE [qa EXCEPT !.audioEnabled = FALSE]
  /\ ha' = IF o = "holographic" /\ granted
             THEN [ha EXCEPT !.audioEnabled = TRUE] ELSE ha
  /\ UNCHANGED <<connected, winAudio, qparams, alast, acalls>>
  /\ UNCHANGED AudioRest

\* universalAudio.update() on a frame the analyser measures as f
AudioUpdate(f, now) ==
  /\ acalls < MaxAudioCalls
  /\ IF ~ua.isActive \/ ~ua.analyser
       THEN /\ alast' = [frame |-> f, delivered |-> FALSE, ticked |-> FALSE,
                         before |-> qparams]
            /\ UNCHANGED qparams
       ELSE /\ alast' = [frame |-> f, delivered |-> "quantum" \in connected,
                         ticked |-> FALSE, before |-> qparams]
            /\ qparams' = IF "quantum" \in connected
                            THEN updateSystemAudio("quantum", qparams, f, now)
                            ELSE qparams
  /\ acalls' = acalls + 1
  /\ UNCHANGED <<ua, connected, qa, ha, winAudio, media, streams>>
  /\ UNCHANGED AudioRest

\* one frame of the quantum render loop: updateAudioReactivity(), then the
\* visualizers draw the current parameters
QRender ==
  /\ qa.isActive
  /\ ~alast.ticked
  /\ qparams' = updateAudioReactivity(qparams, alast.frame)
  /\ alast' = [alast EXCEPT !.ticked = TRUE]
  /\ UNCHANGED <<ua, connected, qa, ha, winAudio, media, streams, acalls>>
  /\ UNCHANGED AudioRest

ANext ==
  \/ AudioInitialize
  \/ \E s \in AudioSystems : ConnectSystem(s)
  \/ \E s \in AudioSystems : DisconnectSystem(s)
  \/ \E v \in {"true", "false"} : WindowAudio(v)
  \/ \E b \in BOOLEAN : QSetActive(b)
  \/ \E b \in BOOLEAN : QToggleAudio(b)
  \/ \E b \in BOOLEAN : HSetActive(b)
  \/ \E o \in Owners, g \in BOOLEAN : MediaSettles(o, g)
  \/ \E f \in AudioFrames, n \in CycleSteps : AudioUpdate(f, n)
  \/ QRender

\* the audio analyzers, their input streams and the frames they deliver
SpecAudio == AInit /\ [][ANext]_vars

\* ------------------------------------------ snapshot parameters: actions
MaxKeys == 2   \* names a saved parameter object defines
SavedValues == {Null, Empty, Text, NaN, Num(0), Num(50), NumStr(70)}

\* the parameter objects with at most n names defined
RECURSIVE Saved(_)
Saved(n) ==
  IF n = 0 THEN {EmptyParams}
  ELSE LET S == Saved(n - 1)
       IN S \cup {[s EXCEPT ![k] = v] : s \in S, k \in Keys, v \in SavedValues}

\* a variation read from a collection file or from localStorage
NInit ==
  /\ Start /\ gpuOk /\ budget = 0 /\ RStart
  /\ holo = NewHolo(0) /\ hcalls = 0
  /\ AStart
  /\ GStart
  /\ IStart
  /\ MStart
  /\ FStart
  /\ TStart
  /\ WStart
  /\ snapshot \in Saved(MaxKeys)
  /\ isObject \in IF snapshot = EmptyParams THEN BOOLEAN ELSE {TRUE}
  /\ normalized = DefaultParameters
  /\ ndone = FALSE

\* parameters: this.normalizeParameters(variation.parameters)
Normalize ==
  /\ ~ndone
  /\ normalized' = normalizeParameters(snapshot, isObject)
  /\ ndone' = TRUE
  /\ UNCHANGED <<snapshot, isObject>>
  /\ UNCHANGED <<poolVars, rvars, hvars, avars, gvars, ivars, mvars, fvars, tvars, wvars>>

NNext == Normalize

\* the normalization of saved parameter objects
SpecNorm == NInit /\ [][NNext]_vars

\* ------------------------------------------------- gallery preview: actions
PreviewEvents == 3   \* switches and driver changes of a preview load

\* a page opened on a deep link: window.galleryPreviewData.system is any of
\* the systems. window.switchSystem is not part of the sources; it awaits the
\* pool's switchToSystem, and rejects is whether it throws when the pool
\* returns null
PInit ==
  /\ Start /\ budget = PreviewEvents /\ RStart
  /\ holo = NewHolo(0) /\ hcalls = 0
  /\ AStart /\ NStart /\ IStart /\ MStart /\ FStart /\ TStart /\ WStart
  /\ gp \in {[pc |-> "switch", system |-> s, rejects |-> b, failed |-> FALSE,
              applied |-> NoSystem] : s \in Systems, b \in BOOLEAN}

\* a switchSystem promise of the preview has settled and its continuation
\* runs before any other task
Settling ==
  /\ gp.pc \in {"switch", "fallback"}
  /\ event.op = "return"

\* await window.switchSystem(targetSystem)
PreviewSwitch(c) ==
  /\ gp.pc = "switch"
  /\ lastTarget = NoSystem
  /\ SwitchToSystem(c, gp.system)

\* await window.switchSystem('faceted') in the catch block
PreviewFallback(c) ==
  /\ gp.pc = "fallback"
  /\ lastTarget = gp.system
  /\ SwitchToSystem(c, "faceted")

\* the continuation of initializeGalleryPreview after an await
PreviewSettle ==
  /\ Settling
  /\ LET threw == ~event.ok /\ gp.rejects
     IN gp' = IF gp.pc = "switch"
                THEN IF threw /\ gp.system # "faceted"
                     THEN [gp EXCEPT !.pc = "fallback", !.failed = TRUE]
                     ELSE [gp EXCEPT !.pc = "params", !.failed = ~event.ok]
              ELSE IF threw THEN [gp EXCEPT !.pc = "params"]
              ELSE [gp EXCEPT !.pc = "params", !.system = "faceted"]
  /\ event' = NoEvent
  /\ UNCHANGED <<activeSystem, ctx, listener, timers, layers, engines, gpuOk,
                 calls, ops, pre, losses, toggles, superseded, lastTarget,
                 lostActive, budget>>
  /\ UNCHANGED <<rvars, hvars, avars, nvars, ivars, mvars, fvars, tvars, wvars>>

\* applyParametersFast(): window.updateParameter hands every parameter to the
\* engine of the current system, if there is one
PreviewApply ==
  /\ gp.pc = "params"
  /\ gp' = [gp EXCEPT !.pc = "done",
                      !.applied = IF activeSystem # NoSystem
                                     /\ engines[activeSystem].exists
                                  THEN activeSystem ELSE NoSystem]
  /\ UNCHANGED <<poolVars, rvars, hvars, avars, nvars, ivars, mvars, fvars, tvars, wvars>>

\* a timeout of a pending switch fires
PreviewResume(c) == ~Settling /\ Resume(c)

\* the driver starts or stops granting contexts while the preview loads
PreviewDriverChange == ~Settling /\ DriverChange

PNext ==
  \/ \E c \in Slots : PreviewSwitch(c)
  \/ \E c \in Slots : PreviewFallback(c)
  \/ PreviewSettle
  \/ PreviewApply
  \/ \E c \in Slots : PreviewResume(c)
  \/ PreviewDriverChange

\* a page load in gallery preview mode
SpecPreview == PInit /\ [][PNext]_vars

\* ------------------------------------------- interaction engine: actions
MaxDomEvents == 2          \* input events dispatched in a run
MaxInteractionCalls == 2   \* calls of methods of the engine in a run
Fingers == {0, 1}          \* Touch.identifier of the fingers

\* the elements events are dispatched on
Targets == {"systemBtn", "slider", "caption", "canvas"}

\* the page of the interaction engine and the router: the canvas areas are
\* in the document when initialize runs, or are not yet
IInit ==
  /\ Start /\ gpuOk /\ budget = 0 /\ RStart
  /\ holo = NewHolo(0) /\ hcalls = 0
  /\ AStart /\ NStart /\ GStart /\ MStart /\ FStart /\ TStart /\ WStart
  /\ ie = NewInteractions
  /\ page \in {NewPage(a) : a \in BOOLEAN}
  /\ input = NoInput

IRest == <<poolVars, hvars, avars, nvars, gvars, mvars, fvars, tvars, wvars>>

\* a call of a method of the engine
ICall(e) ==
  /\ page.calls < MaxInteractionCalls
  /\ ie' = e
  /\ page' = [page EXCEPT !.calls = @ + 1]
  /\ UNCHANGED <<input, rvars, IRest>>

\* universalInteractions.initialize(), once: the container defaults to the
\* body
Initialize ==
  /\ ie.container = NoElement
  /\ ie' = initialize(ie, "body", page.areas)
  /\ UNCHANGED <<page, input, rvars, IRest>>

\* setEnabled(enabled)
SetInteractionsEnabled(enabled) ==
  /\ ie.isActive # enabled
  /\ ICall([ie EXCEPT !.isActive = enabled])

\* connectSystem(systemName, systemInstance)
ConnectInteractions(s) ==
  /\ s \notin ie.connectedSystems
  /\ ICall([ie EXCEPT !.connectedSystems = @ \cup {s}])

\* disconnectSystem(systemName)
DisconnectInteractions(s) ==
  /\ s \in ie.connectedSystems
  /\ ICall([ie EXCEPT !.connectedSystems = @ \ {s}])

\* destroy()
DestroyInteractions ==
  /\ ie.connectedSystems # {} \/ ie.touches # <<>>
  /\ ICall([ie EXCEPT !.connectedSystems = {}, !.touches = <<>>])

\* a listener of the engine is on the path of the event
Heard(target) == ie.listeners \cap Path(target) # {}

\* the event bubbles from its target to the document: the handler of the
\* engine has left S, the handler of the router X
Dispatch(type, target, S, X, routerPrevents, fingers) ==
  /\ page.events < MaxDomEvents
  /\ ie' = S.ie
  /\ page' = [page EXCEPT !.store = S.store, !.timeouts = S.timeouts,
                          !.fingers = fingers, !.events = @ + 1]
  /\ input' = [type |-> type, target |-> target,
               prevented |-> S.prevented \/ routerPrevents,
               wrote |-> S.wrote]
  /\ RCommit(X)
  /\ frame' = NoFrame
  /\ UNCHANGED <<rejected, inputs, frames>>
  /\ UNCHANGED IRest

\* the checks every handler of the router starts with
RouterTakes(target, flag) ==
  rm.loaded /\ rm.enabled /\ flag /\ isCanvasEvent(target)

DomMouseMove(target, p) ==
  /\ Dispatch("mousemove", target,
              IF Heard(target) THEN handleMouseMove(IState, p) ELSE IState,
              IF isCanvasEvent(target) THEN handleGlobalMouseMove(Fresh, p)
              ELSE Fresh,
              FALSE, page.fingers)
  /\ UNCHANGED stale

DomMouseButton(target, down) ==
  /\ Dispatch(IF down THEN "mousedown" ELSE "mouseup", target,
              IF Heard(target) THEN handleMouseButton(IState, down)
              ELSE IState,
              Fresh, FALSE, page.fingers)
  /\ UNCHANGED stale

DomClick(target, p) ==
  /\ Dispatch("click", target,
              IF Heard(target) THEN handleCanvasClick(IState, target)
              ELSE IState,
              IF isCanvasEvent(target) THEN handleGlobalClick(Fresh, p)
              ELSE Fresh,
              FALSE, page.fingers)
  /\ stale' = IF RouterTakes(target, rm.clickEnabled)
              THEN stale \ {rm.currentClickMode} ELSE stale

DomDoubleClick(target) ==
  /\ Dispatch("dblclick", target,
              IF Heard(target) THEN handleDoubleClick(IState) ELSE IState,
              Fresh, FALSE, page.fingers)
  /\ UNCHANGED stale

DomWheel(target, deltaY, next) ==
  /\ Dispatch("wheel", target,
              IF Heard(target) THEN handleWheel(IState, deltaY) ELSE IState,
              IF isCanvasEvent(target)
              THEN handleGlobalWheel(Fresh, deltaY, next) ELSE Fresh,
              RouterTakes(target, rm.scrollEnabled), page.fingers)
  /\ UNCHANGED stale

\* a finger goes down on an element; the router does not listen
DomTouchStart(id, target, p) ==
  /\ \A i \in 1..Len(page.fingers) : page.fingers[i].id # id
  /\ LET fingers == Append(page.fingers,
                           [id |-> id, target |-> target, p |-> p])
     IN Dispatch("touchstart", target,
                 IF Heard(target) THEN handleTouchStart(IState, fingers, id, p)
                 ELSE IState,
                 Fresh, FALSE, fingers)
  /\ UNCHANGED stale

\* a finger moves: the target stays the element it went down on, and the
\* router reads the position of touches[0]
DomTouchMove(i, p) ==
  /\ i \in 1..Len(page.fingers)
  /\ LET target == page.fingers[i].target
         fingers == [page.fingers EXCEPT ![i].p = p]
     IN Dispatch("touchmove", target,
                 IF Heard(target)
                 THEN handleTouchMove(IState, fingers, fingers[i].id, p)
                 ELSE IState,
                 IF isCanvasEvent(target)
                 THEN handleGlobalTouchMove(Fresh, fingers[1].p) ELSE Fresh,
                 RouterTakes(target, rm.mouseEnabled), fingers)
  /\ UNCHANGED stale

\* a finger is lifted: handleGlobalTouchEnd routes its position to the
\* click mode
DomTouchEnd(i) ==
  /\ i \in 1..Len(page.fingers)
  /\ LET target == page.fingers[i].target
         id == page.fingers[i].id
         fingers == SelectSeq(page.fingers, LAMBDA f : f.id # id)
     IN Dispatch("touchend", target,
                 IF Heard(target) THEN handleTouchEnd(IState, target, id)
                 ELSE IState,
                 IF isCanvasEvent(target)
                 THEN handleGlobalClick(Fresh, page.fingers[i].p) ELSE Fresh,
                 FALSE, fingers)
  /\ stale' = IF RouterTakes(page.fingers[i].target, rm.clickEnabled)
              THEN stale \ {rm.currentClickMode} ELSE stale

\* a timeout set by a click or a double click on the faceted system fires
ChaosTimeout ==
  /\ page.timeouts > 0
  /\ page' = [page EXCEPT !.store["faceted"]["chaos"] = 20,
                          !.timeouts = @ - 1]
  /\ UNCHANGED <<ie, input, rvars, IRest>>

INext ==
  \/ LoadRouter
  \/ Initialize
  \/ \E b \in BOOLEAN : SetInteractionsEnabled(b)
  \/ \E s \in Systems : ConnectInteractions(s)
  \/ \E s \in Systems : DisconnectInteractions(s)
  \/ DestroyInteractions
  \/ \E t \in Targets, p \in Points : DomMouseMove(t, p)
  \/ \E t \in Targets, b \in BOOLEAN : DomMouseButton(t, b)
  \/ \E t \in Targets, p \in Points : DomClick(t, p)
  \/ \E t \in Targets : DomDoubleClick(t)
  \/ \E t \in Targets, d \in Deltas, n \in BOOLEAN : DomWheel(t, d, n)
  \/ \E f \in Fingers, t \in Targets, p \in Points : DomTouchStart(f, t, p)
  \/ \E i \in 1..2, p \in Points : DomTouchMove(i, p)
  \/ \E i \in 1..2 : DomTouchEnd(i)
  \/ ChaosTimeout

\* input events on the page of the interaction engine and the router
SpecInput == IInit /\ [][INext]_vars


\* ------------------------------------------- the canvas manager: actions
MaxCanvasCalls == 3        \* constructions of engines by the canvas manager

CInit ==
  /\ Start /\ gpuOk /\ budget = 0 /\ RStart
  /\ holo = NewHolo(0) /\ hcalls = 0
  /\ AStart /\ NStart /\ GStart /\ IStart
  /\ MStart
  /\ FStart
  /\ TStart
  /\ WStart

CRest == <<poolVars, rvars, hvars, avars, nvars, gvars, ivars, fvars, tvars,
          wvars>>

Constructed == cm["faceted"].gen + cm["quantum"].gen + cm["holographic"].gen

\* switchToSystem(systemName, engineClasses) as far as the engine cache goes
GetOrCreateEngine(s, n, granted) ==
  /\ Constructed < MaxCanvasCalls
  /\ LET r == getOrCreateEngine(cm, s, engineClasses, n, granted)
     IN /\ cm' = r.engines
        /\ cmEvent' = [op |-> r.op, sys |-> s]
  /\ UNCHANGED CRest

\* the driver loses the context of one visualizer of a cached engine
VisualizerContextLost(s, i) ==
  /\ cm[s].cached
  /\ i \in DOMAIN cm[s].visualizers
  /\ cm[s].visualizers[i] = "valid"
  /\ cm' = [cm EXCEPT ![s].visualizers[i] = "lost"]
  /\ cmEvent' = NoCanvasEvent
  /\ UNCHANGED CRest

CNext ==
  \/ \E s \in Systems, n \in {0, LayerCount}, granted \in BOOLEAN :
       GetOrCreateEngine(s, n, granted)
  \/ \E s \in Systems, i \in Layer : VisualizerContextLost(s, i)

SpecCanvas == CInit /\ [][CNext]_vars

\* -------------------------------------------- audio features: actions
MaxFeatureFrames == 4             \* frames processed in a run
Energies == {0, 20, 50, 100}      \* overall energy of a frame, hundredths

FInit ==
  /\ Start /\ gpuOk /\ budget = 0 /\ RStart
  /\ holo = NewHolo(0) /\ hcalls = 0
  /\ AStart /\ NStart /\ GStart /\ IStart /\ MStart
  /\ FStart
  /\ TStart
  /\ WStart

\* one pass of the audio loop over a frame of energy e
ProcessAudioFeatures(e) ==
  /\ af.frames < MaxFeatureFrames
  /\ af' = processAudioFeatures(af, e)
  /\ UNCHANGED <<poolVars, rvars, hvars, avars, nvars, gvars, ivars, mvars,
                 tvars, wvars>>

FNext == \E e \in Energies : ProcessAudioFeatures(e)

SpecFeatures == FInit /\ [][FNext]_vars

\* ---------------------------------------------- tilt controller: actions
MaxTiltUpdates == 2    \* rotations handed to the holographic system

\* rot4dXW the holographic system reports when the controller starts
Bases == {-3 * MilliPi, -2 * MilliPi, -MilliPi - 100, -MilliPi, -1000, 0,
          1000, MilliPi, MilliPi + 100, 2 * MilliPi, 3 * MilliPi}

\* smoothedTilt * tiltSensitivity * Math.PI for a tilt between -2 and 2
Offsets == {-126, -100, 0, 100, 126}

TiltStart ==
  /\ Start /\ gpuOk /\ budget = 0 /\ RStart
  /\ holo = NewHolo(0) /\ hcalls = 0
  /\ AStart /\ NStart /\ GStart /\ IStart /\ MStart /\ FStart
  /\ TStart
  /\ WStart

TRest == <<poolVars, rvars, hvars, avars, nvars, gvars, ivars, mvars, fvars,
          wvars>>

\* init(): captureBaseRotations
TiltInit(b) ==
  /\ ~tilt.isActive
  /\ tilt.updates < MaxTiltUpdates
  /\ tilt' = [tilt EXCEPT !.isActive = TRUE, !.base = b]
  /\ UNCHANGED TRest

\* deactivate(): returnToBase is not modelled
TiltDeactivate ==
  /\ tilt.isActive
  /\ tilt' = [tilt EXCEPT !.isActive = FALSE]
  /\ UNCHANGED TRest

\* one pass of the update loop
TiltUpdate(offset, onHolo) ==
  /\ tilt.isActive
  /\ tilt.updates < MaxTiltUpdates
  /\ tilt' = apply4DRotationTilt(tilt, offset, onHolo)
  /\ UNCHANGED TRest

TiltNext ==
  \/ \E b \in Bases : TiltInit(b)
  \/ TiltDeactivate
  \/ \E o \in Offsets, h \in BOOLEAN : TiltUpdate(o, h)

SpecTilt == TiltStart /\ [][TiltNext]_vars

\* ------------------------------------------- mobile WebGL fix: actions
MaxMobileCalls == 4    \* requests and context events of a run

MobileStart ==
  /\ Start /\ gpuOk /\ budget = 0 /\ RStart
  /\ holo = NewHolo(0) /\ hcalls = 0
  /\ AStart /\ NStart /\ GStart /\ IStart /\ MStart /\ FStart /\ TStart
  /\ mob \in {NewMobile(m) : m \in BOOLEAN}

WRest == <<poolVars, rvars, hvars, avars, nvars, gvars, ivars, mvars, fvars,
          tvars>>

Requested(r, patched) ==
  /\ mob.calls < MaxMobileCalls
  /\ mob' = [r.M EXCEPT !.calls = @ + 1,
                        !.result = [value |-> r.value, patched |-> patched]]
  /\ UNCHANGED WRest

\* MobileWebGLFix.initializeMobileFixes(), when the document has loaded
InitializeMobileFixes ==
  /\ ~mob.installed
  /\ mob' = initializeMobileFixes(mob)
  /\ UNCHANGED WRest

\* canvas.getContext('webgl') somewhere in the page
GetContext(c, grant) ==
  /\ mob.calls < MaxMobileCalls
  /\ IF mob.installed
     THEN Requested(patchedGetContext(mob, c, grant), TRUE)
     ELSE Requested(originalGetContext(mob, c, grant), FALSE)

\* getSafeWebGLContext(canvasId): createMobileWebGLContext called directly
GetSafeWebGLContext(c, grant) ==
  /\ mob.calls < MaxMobileCalls
  /\ Requested(createMobileWebGLContext(mob, c, grant, 1), mob.installed)

\* webglcontextlost on a canvas: every handler attached to it runs
MobileContextLost(c) ==
  /\ mob.calls < MaxMobileCalls
  /\ mob.gl[c] = "live"
  /\ mob' = [mob EXCEPT !.gl[c] = "lost",
                        !.activeContexts = Max(0, @ - mob.listeners[c]),
                        !.calls = @ + 1]
  /\ UNCHANGED WRest

\* webglcontextrestored on a canvas
MobileContextRestored(c) ==
  /\ mob.calls < MaxMobileCalls
  /\ mob.gl[c] = "lost"
  /\ mob' = [mob EXCEPT !.gl[c] = "live",
                        !.activeContexts = @ + mob.listeners[c],
                        !.calls = @ + 1]
  /\ UNCHANGED WRest

MobileNext ==
  \/ InitializeMobileFixes
  \/ \E c \in Canvases, g \in BOOLEAN : GetContext(c, g)
  \/ \E c \in Canvases, g \in BOOLEAN : GetSafeWebGLContext(c, g)
  \/ \E c \in Canvases : MobileContextLost(c)
  \/ \E c \in Canvases : MobileContextRestored(c)

SpecMobile == MobileStart /\ [][MobileNext]_vars

TypeOK ==
  /\ activeSystem \in Systems \cup {NoSystem}
  /\ ctx \in [Systems -> [Layer -> {"none", "live", "lost"}]]
  /\ \A x \in Slots : calls[x].pc \in
       {"idle", "cleanup", "visible", "pace", "stabilize", "engine", "reinit"}


\* ------------------------------------------------------------- claims
CompositedSet == {s \in Systems : Composited(layers, s)}

ActiveEngines == {s \in Systems : engines[s].exists /\ engines[s].isActive}

Returned == event.op \in {"return", "same"}

\* C1: at every moment the number of live contexts over the surfaces of all
\* four systems is at most MAX_LIVE_CONTEXTS.
C1_LiveContextCap == Total(ctx) <= MAX_LIVE_CONTEXTS

\* C2: when switchToSystem(T) has just returned an engine, T's layer
\* container is composited and no other system's is.
C2_OnlyTargetComposited ==
  (Returned /\ event.ok) => CompositedSet = {event.sys}

\* C3: in every reachable state at most one system's layer container is
\* composited.
C3_AtMostOneComposited == Cardinality(CompositedSet) <= 1

\* C4: in a run without driver-initiated loss, when a switch has just
\* finished, with an engine or with null, and no other call is in flight, all
\* five contexts of the recorded active system are live.
C4_ActiveFullyBound ==
  (Returned /\ InFlight = {} /\ losses = 0 /\ activeSystem # NoSystem)
     => LiveIn(ctx, activeSystem) = LayerCount

\* C5: when a switch that was issued while an engine was running has just
\* failed, that engine's system is still the recorded active one and the
\* engine is still running: active, composited, its five contexts live.
C5_FailureKeepsPrevious ==
  (event.op = "return" /\ ~event.ok /\ event.prevOk)
     => /\ activeSystem = event.prev
        /\ Running(event.prev)

\* C6: once a switch that was overtaken while it was creating contexts and
\* the switch that overtook it have both finished, the later target is the
\* active system and the earlier target holds no context.
C6_SupersededReleased ==
  (InFlight = {} /\ superseded # {})
     => /\ activeSystem = lastTarget
        /\ \A s \in superseded : LiveIn(ctx, s) = 0

\* C7: whenever no call is in flight, at most one engine has isActive = true.
C7_OneActiveEngine == InFlight = {} => Cardinality(ActiveEngines) <= 1

C9_LossRecovered ==
  (lostActive # NoSystem /\ timers = {} /\ InFlight = {})
     => Healthy(lostActive)

\* C10: a switch issued with 15 live contexts held by the three other systems
\* returns an engine and leaves exactly five live contexts.
C10_CapacityScenario ==
  (event.op = "return" /\ event.cap)
     => event.ok /\ Total(ctx) = MAX_LIVE_CONTEXTS

\* C11: acquisition is all-or-nothing: when the creation loop of the only call
\* in flight has ended and the call waits at the stabilization delay, with no
\* context lost by the driver, its target holds all five contexts or none.
C11_AllOrNothing ==
  \A c \in Slots :
    (/\ calls[c].pc = "stabilize"
     /\ losses = 0
     /\ \A d \in Slots \ {c} : calls[d].pc = "idle")
      => LiveIn(ctx, calls[c].target) \in {0, LayerCount}

\* C12: when a switch to any of the four systems has completed, having run
\* alone on a driver that grants every context, the system's layer container
\* is displayed and its engine exists, has a visualizer and is active.
C12_SwitchCompletes ==
  (/\ event.op = "return"
   /\ ops = 1 /\ pre = 0 /\ losses = 0 /\ toggles = 0 /\ gpuOk)
    => /\ layers[event.sys].display = "block"
       /\ engines[event.sys].exists
       /\ engines[event.sys].visualizers >= 1
       /\ engines[event.sys].isActive


\* C13: with the router loaded and enabled, one pointer, click or wheel event
\* on the active engine's canvas leads to parameter writes from the router
\* only, never from both the router and the engine's own listeners.
C13_NativeSuppressed ==
  (rm.loaded /\ rm.enabled) => ~({"router", "native"} \subseteq evW)

\* C14: with the router enabled, when an active engine renders, every field
\* that both the engine's native reactivity and the router wrote since the
\* previous render holds the router's value.
C14_RouterLast ==
  (rm.loaded /\ rm.enabled) => frame.overruled = {}

\* C15: a click mode that is animating eventually stops animating, once no
\* further click arrives.
C15_DecayStops ==
  \A n \in ClickModeNames :
    clickModes[n].isAnimating ~> ~clickModes[n].isAnimating

\* C16: after the router was switched to another system, no decay loop that a
\* click started before the switch writes a parameter.
C16_NoStaleLoops == frame.loops \cap stale = {}

\* C17: after a mode selection that names no mode of the channel, and until a
\* valid selection, an event on that channel leads to no parameter write by
\* the router.
C17_InvalidModeOff ==
  frame.input \in rejected => "router" \notin evW

\* C18: while the router's master enable is off, no step writes a parameter:
\* not a router mode, not a decay animation, not an engine's own listeners.
C18_MasterOff ==
  (rm.loaded /\ ~rm.enabled) => evW = {}

\* C19: a wheel event with delta 0 leaves the accumulators of the wheel modes
\* as they were and makes the router write no parameter.
C19_ZeroWheelNoOp ==
  [][(frame'.input = "scroll" /\ frame'.delta = 0)
       => (scrollModes' = scrollModes /\ "router" \notin evW')]_vars

\* C20: in a frame that runs while an engine is inactive, the engine draws
\* nothing, pulls no parameters and writes no parameter.
C20_InactiveTickNoOp ==
  \A e \in SelfShowing :
    (frame.ran /\ engines[e].exists /\ ~engines[e].isActive)
      => (e \notin frame.drawn /\ e \notin frame.idle)

\* a frame has run after the holographic engine, clicked while active and with
\* the click's morph effect still pending, was set inactive
C20_Witness ==
  /\ frame.ran
  /\ engines["holographic"].exists
  /\ ~engines["holographic"].isActive
  /\ native["holographic"].clickMorphIntensity > 0
  /\ <<"render", "holographic">> \in {raf[i] : i \in DOMAIN raf}

\* C21: a destroyed engine has stopped: a frame run after destroy() neither
\* lets it pull parameters nor queues its render callback again, and an input
\* event on its canvas makes its listeners write nothing.
C21_DestroyStops ==
  \A e \in SelfShowing :
    native[e].destroyed =>
      /\ frame.ran => (e \notin frame.drawn
                        /\ <<"render", e>> \notin {raf[i] : i \in DOMAIN raf})
      /\ frame.target = e => "native" \notin evW

\* C22: after a variant change of the holographic engine every visualizer
\* holds the role parameters generated for the new variant and, for each
\* parameter, the override set with updateParameter if there is one and the
\* value generated for the new variant otherwise.
C22_StickyOverride ==
  holo.last = "variant" =>
    \A i \in DOMAIN holo.visualizers :
      /\ holo.visualizers[i].variant = holo.currentVariant
      /\ holo.visualizers[i].roleParams
           = generateRoleParams(holo.currentVariant, i)
      /\ \A p \in HParams :
           holo.visualizers[i].variantParams[p]
             = IF holo.customParams[p] # Unset THEN holo.customParams[p]
               ELSE generateVariantParams(holo.currentVariant)[p]

\* setVariant(6) has run on an engine with five visualizers after gridDensity
\* was overridden with 42
C22_Witness ==
  /\ holo.last = "variant"
  /\ holo.currentVariant = 6
  /\ holo.customParams["gridDensity"] = 42
  /\ DOMAIN holo.visualizers = 1..LayerCount
  /\ \A i \in 1..LayerCount :
       holo.visualizers[i].variantParams["gridDensity"] = 42


\* an update() that reached the quantum engine; the frame it ran on
Delivered(f) == alast.delivered /\ alast.frame = f

\* C23: a silent audio frame (bass = mid = high = energy = 0) leaves every
\* parameter of a connected engine as it was before the frame, whatever the
\* values were.
C23_SilenceNoChange == Delivered(Silence) => qparams = alast.before

\* C24: with Quantum active, base hue 280 and base morphFactor 1.0, the frame
\* {bass 0.9, mid 0.1, high 0.1, energy 0.8} gives on the next tick hue 292,
\* morphFactor 1.10 and intensity 0.97.
C24_TestFrameValues ==
  (/\ Delivered(TestFrame) /\ alast.ticked /\ qa.isActive
   /\ alast.before.hue = 28000 /\ alast.before.morphFactor = 10000)
    => (/\ qparams.hue = 29200
        /\ qparams.morphFactor = 11000
        /\ qparams.intensity = 9700)

\* C29: no engine opens an audio input of its own, and at most one audio
\* input stream is open at any time.
C29_SingleAudioInput ==
  /\ streams["quantum"] = 0
  /\ streams["holographic"] = 0
  /\ streams["universal"] <= 1


\* C25: after every write a router mode or an engine's built-in reactivity
\* makes on an input event, the value read back from the engine lies in the
\* field's range (gridDensity 5..100, morphFactor 0..2, chaos 0..1,
\* speed 0.1..3, intensity 0..1, saturation 0..1).
C25_WritesInRange ==
  [][\A f \in DOMAIN ParamRange :
       (frame'.target \in SelfShowing /\ params'[f] # params[f])
         => InRange(f, getParameters(frame'.target, f, params'[f].v))]_vars


\* the first name of a chain, from the i-th, whose value is a number; 0 if none
RECURSIVE firstValid(_, _, _)
firstValid(saved, names, i) ==
  IF i > Len(names) THEN 0
  ELSE IF isNumber(saved[names[i]]) THEN i
  ELSE firstValid(saved, names, i + 1)

\* C26: normalizing a snapshot's parameters gives every canonical field the
\* value under its canonical name when that is a number (zero included),
\* otherwise the number under its first legacy alias that has one, otherwise
\* the field's default.
C26_NormalizeAliases ==
  (ndone /\ isObject) =>
    \A f \in Canonical :
      LET i == firstValid(snapshot, Chain[f], 1)
      IN normalized[f] = IF i = 0 THEN DefaultParameters[f]
                         ELSE snapshot[Chain[f][i]].n


\* C27: when a gallery preview's switch to the requested system has failed or
\* given no engine, the preview ends with the faceted engine active and the
\* preview parameters applied to it.
C27_PreviewFallback ==
  (gp.pc = "done" /\ gp.failed) =>
    (/\ activeSystem = "faceted"
     /\ engines["faceted"].exists /\ engines["faceted"].isActive
     /\ gp.applied = "faceted")

C30_UnhealthySameIsFresh ==
  [][(/\ event'.op = "same"
      /\ ~(LiveIn(ctx, event'.sys) = LayerCount /\ engines[event'.sys].exists)
      /\ event'.ok)
       => /\ LiveIn(ctx', event'.sys) = LayerCount
          /\ engines'[event'.sys].exists]_vars


\* C31: an engine is constructed only when no engine of that id exists, also
\* when switch calls overlap: the step of a call that comes back from the
\* wait of createEngineForSystem and constructs the engine of its target
\* starts in a state where no engine of that target exists.
C31_ConstructOnlyWhenAbsent ==
  [][\A c \in Slots :
       (/\ calls[c].pc = "engine"
        /\ calls'[c].pc = "idle"
        /\ calls[c].target \in engineClasses)
         => ~engines[calls[c].target].exists]_vars


\* C32: a context is never released while an engine owns renderers bound to
\* it: in every step that releases a live context of a system, that system's
\* engine has been destroyed (no instance, or an instance with no
\* visualizers) by the end of the step.
C32_EngineDestroyedBeforeRelease ==
  [][\A s \in Systems :
       (\E i \in Layer : ctx[s][i] = "live" /\ ctx'[s][i] = "none")
         => (~engines'[s].exists \/ engines'[s].visualizers = 0)]_vars


\* C33: the canvas manager reuses a cached engine only when every one of
\* its visualizers has a context that is not lost: a call of
\* getOrCreateEngine that returns the cached instance starts in a state
\* where all visualizers of that instance are valid.
C33_ReuseOnlyAllValid ==
  [][cmEvent'.op = "reuse" /\ cm' = cm
       => \A i \in DOMAIN cm[cmEvent'.sys].visualizers :
             cm[cmEvent'.sys].visualizers[i] = "valid"]_vars


\* C34: in Cycle wheel mode a wheel event with a non-zero deltaY that the
\* router handles moves gridDensity by 0.8 in the direction of deltaY, kept
\* within 5 and 100, and hue by 3 modulo 360, both counted from the values
\* the parameters have when the event arrives.
C34_CycleFromValuesInForce ==
  [][(/\ frame'.input = "scroll"
      /\ frame'.delta # 0
      /\ rm.loaded /\ rm.enabled /\ rm.scrollEnabled
      /\ rm.currentScrollMode = "cycle"
      /\ params.gridDensity.src # "none"
      /\ params.hue.src # "none")
       => /\ params'.gridDensity.v =
               round(Max(5 * Unit, Min(100 * Unit,
                     params.gridDensity.v * 100
                       + direction(frame'.delta) * ((8 * Unit) \div 10))))
          /\ params'.hue.v =
               round((((params.hue.v * 100
                          + direction(frame'.delta) * 3 * Unit)
                        % (360 * Unit)) + 360 * Unit) % (360 * Unit))]_vars


\* C35: after every processed audio frame the transient feature is ten
\* times the rise of the energy over the energy of the frame processed
\* immediately before, and zero when the energy did not rise.
C35_TransientFromPrecedingFrame ==
  af.frames > 0 => af.transients = Max(0, af.energy - af.before) * 10

\* C36: after every processed audio frame the rhythm feature is a number
\* between 0 and 1, and every index detectRhythm reads lies inside the
\* 60 samples of the energy history.
C36_RhythmInUnitRange ==
  af.frames > 0 =>
    /\ af.rhythm.t = "number"
    /\ af.rhythm.n >= 0 /\ af.rhythm.n <= Unit
    /\ \A k \in rhythmReads(af.energyHistory) : k < HistoryLength


\* C37: every rotation the tilt controller hands to the holographic system
\* is greater than -pi and at most pi, and differs from the unwrapped
\* base + offset by a whole multiple of 2 pi.
C37_WrappedHalfOpen ==
  tilt.updates > 0 =>
    /\ tilt.applied > -MilliPi
    /\ tilt.applied <= MilliPi
    /\ (tilt.applied - tilt.final) % (2 * MilliPi) = 0


\* C38: while an active Quantum or Holographic engine that uses its
\* built-in reactivity has a click effect above its threshold, the frame
\* callback that decays the effect is queued for the next frame.
C38_ClickDecayQueued ==
  \A e \in SelfShowing :
    (/\ engines[e].exists /\ engines[e].isActive
     /\ native[e].useBuiltInReactivity /\ native[e].listening
     /\ IF e = "quantum"
        THEN \/ native[e].clickFlashIntensity > 100
             \/ native[e].quantumChaosBlast > 100
             \/ native[e].quantumSpeedWave > 100
             \/ native[e].quantumHueShift > Unit
        ELSE native[e].clickMorphIntensity > 0)
      => \E k \in DOMAIN raf : raf[k] = <<"native", e>>


\* C39: once initializeMobileFixes has installed its replacement of
\* getContext, every request for a WebGL context comes back with a context
\* or with null.
C39_PatchedRequestReturns ==
  mob.result.patched => mob.result.value \in Canvases \cup {"null"}

=============================================================================
